---- MODULE Spec2Model ----

(***************************************************************************)
(* TestVerse backend: the test execution engine.                           *)
(*                                                                         *)
(*   app/routers/test_router.py     _safe_url, ConnectionManager, _step,   *)
(*                                  _run_all, run_tests, ws_endpoint       *)
(*   app/routers/cicd_router.py     _trigger_test, _run_github_test        *)
(*   app/services/scheduler.py      _run_scheduled_test                    *)
(*   app/services/score_calculator.py  calculate_score, generate_summary   *)
(*   app/services/crawler.py        _is_oauth_url, crawl_website           *)
(*   app/services/playwright_runner.py  the login verdict                  *)
(*   app/utils/db_results.py        save_result, get_result                *)
(*                                                                         *)
(* Python values are modelled as tagged records (PyNone, PyInt, ...), a    *)
(* dict as a function from its keys, a missing key as a key outside the    *)
(* DOMAIN.  An exception is modelled as a distinguished outcome of the     *)
(* step that raises it, followed by the handler the code runs for it.      *)
(***************************************************************************)
EXTENDS Integers, Sequences, FiniteSets, TLC

VARIABLES
    \* ---- _safe_url applied to one URL (SpecGuard)
    gUrl,        \* the URL, as urlparse splits it
    gDns,        \* what socket.getaddrinfo answered for its host
    gVerdict,    \* "pending", or the boolean _safe_url returned
    \* ---- calculate_score applied to one result dict (SpecScore)
    sResult,     \* the result dict handed to calculate_score
    sOut,        \* "pending", or what calculate_score did
    \* ---- _extract_value applied to one broken-links record (SpecDerived)
    bRec,        \* the dict _check_broken_links returned
    bVal,        \* "pending", or the value _extract_value derived from it
    \* ---- crawl_website applied to one site (SpecCrawl)
    cSite,       \* the site: what its pages answer and hold
    cMax,        \* max_pages
    cPc,         \* position inside crawl_website
    cQueue,      \* queue: the (url, depth) pairs waiting, in order
    cVisited,    \* visited
    cPages,      \* crawled_pages
    cLinks,      \* all_links: (link_url, found_on), in order
    cImages,     \* all_images: (img_src, found_on), in order
    cProbed,     \* the URLs handed to _check_link_status
    cBroken,     \* broken_links_check
    cMissing,    \* missing_images_check
    \* ---- the login verdict for one submitted form (SpecVerdict)
    lTarget,     \* target_login: the URL of the login page
    lCurrent,    \* page.url after the submit
    lBody,       \* the text of the page after the submit
    lIndicator,  \* success_indicator: "none", or whether its selector was found
    lOut,        \* the pending verdict, or (login_success, message)
    \* ---- _test_post_login_ui on one page (SpecExplore)
    eButtons,    \* the buttons of the page, in document order
    eForms,      \* the number of forms of the page
    eSel,        \* index of the selector being scanned
    eIdx,        \* index inside the selector's locator
    eSeen,       \* seen_labels
    eActions,    \* actions
    eClicked,    \* the buttons whose click returned, in order
    eSubmits,    \* number of form submissions the clicks caused
    ePc,         \* position inside _test_post_login_ui
    eReturned,   \* the actions of the PostLoginCheck returned
    \* ---- browser sessions and the password of the login stage (SpecSession)
    nKeyed,      \* CREDENTIAL_ENCRYPTION_KEY is set
    nEncPw,      \* enc_pw of _run_all
    nPw,         \* pw of _run_all
    nStage,      \* position of _run_all around its login stage
    nFn,         \* the browser function running: "login" or "js"
    nPc,         \* position inside that function
    nPassword,   \* password of _async_run_login_test
    nBrowser,    \* its local `browser`
    nContext,    \* its local `context`
    nOpen,       \* the browsers and contexts that are open
    nOwner,      \* <<context, browser>> pairs
    nUsedBy,     \* <<browser or context, call>>: which call held it
    nCalls,      \* number of calls of a browser function so far
    nExc,        \* an exception is on its way out of the function
    \* ---- ConnectionManager with several ids (SpecManager)
    mReg,        \* manager._c: test id -> list of sockets
    mSock,       \* each socket: "new", "open" (accepted) or "gone"
    mPc,         \* position inside broadcast
    mTid,        \* tid of the broadcast call
    mAtCall,     \* list(self._c.get(tid, [])) as the call took it
    mTodo,       \* what is left of that list
    mDead,       \* dead
    mSent,       \* the sockets whose send_text returned, in order
    mRet,        \* the registry and the sockets as the last broadcast left them
    \* ---- the rate limiter (SpecRate)
    rNow,        \* time.monotonic()
    rTicks,      \* number of steps of the clock so far
    rLog,        \* _log: ip -> deque of the times of the requests passed on
    rLimit,      \* settings.rate_limit_per_minute
    rHist,       \* the requests handled so far, with their outcome
    \* ---- one run of the orchestrator (Spec, SpecStream)
    pc,          \* position of the run in its entry point and in _run_all
    idx,         \* index of the current check inside its stage
    entry,       \* the entry point that started the run
    url,         \* the URL under test
    guardOk,     \* _safe_url has been applied to url and returned True
    netReqs,     \* number of network requests issued to url by the checks
    creds,       \* username and enc_pw were both supplied
    userId,      \* user_id handed to _run_all ("" when none)
    result,      \* the dict `result` of _run_all
    db,          \* the stored documents, test_id -> document
    gathered,    \* what asyncio.gather returned for the nine probes
    loginRet,    \* what run_login_test returned
    excLog,      \* the places where an exception was raised, in order
    stepLog,     \* the _step calls that returned, in order
    bcastLog,    \* the broadcast calls made, in order
    saves,       \* number of save_result calls that stored a document
    started,     \* the Stage-1 checks handed to the executor, in order
    notified,    \* number of notification task pairs created
    conns,       \* manager._c[tid]: the registered sockets, in order
    wsPc,        \* per socket: position of its ws_endpoint call
    wsSnap,      \* per socket: the document ws_endpoint read
    inbox,       \* per socket: the messages the client received, in order
    wsEarly      \* per socket: registered during the run, before its first broadcast

VARIABLES
    fPhase,      \* which gather of crawl_website is awaited: "links", "images", "done"
    fLinks,      \* len(unique_links)
    fImages,     \* len(unique_images)
    fWaiting,    \* probe tasks of the awaited gather that have not entered `async with sem`
    fHead,       \* probes inside `async with sem` awaiting their HEAD request
    fGet,        \* probes inside `async with sem` awaiting their fallback GET request
    fSem,        \* sem._value
    fFallback    \* number of probes whose status came from the fallback GET

fanVars == <<fPhase, fLinks, fImages, fWaiting, fHead, fGet, fSem, fFallback>>
VARIABLES
    qStart,      \* start_url of crawl_website, as urlparse reads it
    qMax,        \* max_pages
    qAnchors,    \* the href attributes every page of the site carries, in order
    qQueue,      \* queue: (url, depth) pairs
    qVisited,    \* visited
    qPages,      \* crawled_pages: the URL and depth of each CrawledPage, in order
    qLinks,      \* all_links: the link URLs recorded for the integrity probes
    qPc          \* "loop" while the while loop runs, "probing" after it

frontierVars == <<qStart, qMax, qAnchors, qQueue, qVisited, qPages, qLinks, qPc>>
VARIABLES
    uLinks,      \* len(unique_nav[:10]): the navigation links to visit
    uButtons,    \* the buttons of the scanned page that reach the click
    uPc,         \* _test_post_login_ui is at: "links", "scan", "buttons", "done"
    uIdx,        \* index of the next link or button
    uActions,    \* actions: action_type, index of the element and status of each record
    nav_passed,  \* nav_passed
    nav_failed,  \* nav_failed
    btn_passed,  \* btn_passed
    btn_failed,  \* btn_failed
    uHome        \* page.url is the page the loop started from

interactVars == <<uLinks, uButtons, uPc, uIdx, uActions, nav_passed, nav_failed,
                  btn_passed, btn_failed, uHome>>
VARIABLES
    tChecks,     \* the checks of the TestResult handed to the two score functions
    tOverall,    \* what calculate_overall_score(result) returned
    tReference   \* what TestScoreCalculation._score(result_dict) returned

reportVars == <<tChecks, tOverall, tReference>>
VARIABLES
    aDoc,        \* the stored document of the run: its user_id and status, or NoDoc
    aLog         \* what each call of an endpoint answered, in order

accessVars == <<aDoc, aLog>>
guardVars == <<gUrl, gDns, gVerdict>>
scoreVars == <<sResult, sOut>>
derivedVars == <<bRec, bVal>>
crawlVars == <<cSite, cMax, cPc, cQueue, cVisited, cPages, cLinks, cImages,
               cProbed, cBroken, cMissing>>
verdictVars == <<lTarget, lCurrent, lBody, lIndicator, lOut>>
exploreVars == <<eButtons, eForms, eSel, eIdx, eSeen, eActions, eClicked, eSubmits,
                 ePc, eReturned>>
sessionVars == <<nKeyed, nEncPw, nPw, nStage, nFn, nPc, nPassword, nBrowser, nContext,
                 nOpen, nOwner, nUsedBy, nCalls, nExc>>
managerVars == <<mReg, mSock, mPc, mTid, mAtCall, mTodo, mDead, mSent, mRet>>
rateVars == <<rNow, rTicks, rLog, rLimit, rHist>>
unitVars  == <<derivedVars, crawlVars, verdictVars, exploreVars, sessionVars,
               managerVars, rateVars, fanVars, frontierVars, interactVars, reportVars, accessVars>>
runVars   == <<pc, idx, entry, url, guardOk, netReqs, creds, userId,
               result, db, gathered, loginRet, excLog, stepLog, bcastLog,
               saves, started, notified>>
wsVars    == <<conns, wsPc, wsSnap, inbox, wsEarly>>
vars      == <<guardVars, scoreVars, unitVars, runVars, wsVars>>

(***************************************************************************)
(* Bounds of the model.                                                    *)
(***************************************************************************)
\* largest number of addresses one name resolves to
MaxResolved == 2
\* largest number of Stage-2 probes that raise in one run
MaxRaising == 2
\* largest number of checks in a result dict handed to calculate_score alone
MaxChecks == 3
\* largest number of links of one page that answer, and that are broken
MaxLinks == 20
\* largest number of numbered pages the start page links to
MaxStartLinks == 50
\* largest number of further hrefs on the start page
MaxExtras == 2
\* largest max_pages handed to crawl_website
MaxPages == 3
\* broken_links[:50], missing_images[:50]
FindingsCap == 50
\* largest number of actions in the list when the button scan of the page starts
MaxPrior == 50
\* largest number of calls of a browser function
MaxCalls == 3
\* largest rate_limit_per_minute
MaxLimit == 2
\* largest number of requests handled
MaxRequests == 3
\* largest number of steps of the clock
MaxTicks == 3
\* WINDOW = 60
WINDOW == 60
\* the steps of the clock: a second, and a second less than a window
Deltas == {1, WINDOW - 1}
\* largest number of forms on the page
MaxForms == 2
\* label[:60]
LabelCap == 60
\* range(min(count, 30))
LocatorCap == 30
\* forms[:5]
FormCap == 5
\* actions[:50]
ActionCap == 50

(***************************************************************************)
(* Python values.                                                          *)
(***************************************************************************)
PyNone     == [t |-> "none"]
PyInt(n)   == [t |-> "int", v |-> n]
PyBool(b)  == [t |-> "bool", v |-> b]
PyStr(s)   == [t |-> "str", v |-> s]
\* a list, of which only the length matters to the code modelled here
PyList(n)  == [t |-> "list", n |-> n]

\* dict.get(key): the value, or None when the key is missing
Get(d, k)  == IF k \in DOMAIN d THEN d[k] ELSE PyNone
\* dict.get(key, default)
GetOr(d, k, dflt) == IF k \in DOMAIN d THEN d[k] ELSE dflt
\* d[k] = v on a dict
Put(d, k, v) == [x \in DOMAIN d \cup {k} |-> IF x = k THEN v ELSE d[x]]
\* bool(v)
Truthy(v) ==
    CASE v.t = "none" -> FALSE
      [] v.t = "bool" -> v.v
      [] v.t = "int"  -> v.v # 0
      [] v.t = "str"  -> v.v # ""
      [] v.t = "list" -> v.n > 0
      [] OTHER        -> TRUE

(***************************************************************************)
(* Origin guard: _safe_url.                                                *)
(*                                                                         *)
(* An address is its version and its words: four octets for IPv4, eight    *)
(* 16-bit groups for IPv6.  A URL is what urlparse makes of it: whether    *)
(* parsing raised, the scheme, and the host, which is missing, a literal   *)
(* address (ipaddress.ip_address accepts the text) or a name.              *)
(***************************************************************************)
Addr4(a, b, c, d) == [ver |-> 4, w |-> <<a, b, c, d>>]
Addr6(h)          == [ver |-> 6, w |-> h]
Network(addr, plen) == [ver |-> addr.ver, w |-> addr.w, plen |-> plen]

BLOCKED ==
    << Network(Addr4(10, 0, 0, 0), 8),
       Network(Addr4(172, 16, 0, 0), 12),
       Network(Addr4(192, 168, 0, 0), 16),
       Network(Addr4(127, 0, 0, 0), 8),
       Network(Addr4(169, 254, 0, 0), 16),
       Network(Addr4(0, 0, 0, 0), 8),
       Network(Addr6(<<0, 0, 0, 0, 0, 0, 0, 1>>), 128),
       Network(Addr6(<<64512, 0, 0, 0, 0, 0, 0, 0>>), 7) >>

\* `addr in network` of the ipaddress module: same version, and the
\* address masked by the prefix equals the network address
InNetwork(a, n) ==
    /\ a.ver = n.ver
    /\ \A j \in 1..Len(a.w) :
         LET bits == IF a.ver = 4 THEN 8 ELSE 16
             left == n.plen - bits * (j - 1)
             k    == IF left >= bits THEN bits ELSE IF left <= 0 THEN 0 ELSE left
             sh   == 2 ^ (bits - k)
         IN  a.w[j] \div sh = n.w[j] \div sh

\* any(ipaddress.ip_address(x) in n for n in BLOCKED)
AnyBlocked(a) == \E j \in 1..Len(BLOCKED) : InNetwork(a, BLOCKED[j])

NoHost        == [kind |-> "none"]
LiteralHost(a) == [kind |-> "ip", addr |-> a]
NameHost      == [kind |-> "name"]
DnsRaises     == [raises |-> TRUE, addrs |-> {}]
DnsAnswer(S)  == [raises |-> FALSE, addrs |-> S]
DnsUnused     == [raises |-> FALSE, addrs |-> {}]

\* _safe_url without the fail-closed handler: a resolution error lets the URL through
safe_url_open(u, dns) ==
    IF ~u.parses THEN FALSE
    ELSE IF u.scheme \notin {"http", "https"} \/ u.host.kind = "none" THEN FALSE
    ELSE IF u.host.kind = "ip" THEN ~AnyBlocked(u.host.addr)
    ELSE IF dns.raises THEN TRUE
    ELSE ~(\E a \in dns.addrs : AnyBlocked(a))

\* _safe_url(url); dns is what getaddrinfo does when the code reaches it
_safe_url(u, dns) ==
    IF ~u.parses THEN FALSE                                   \* urlparse raised
    ELSE IF u.scheme \notin {"http", "https"} \/ u.host.kind = "none" THEN FALSE
    ELSE IF u.host.kind = "ip" THEN ~AnyBlocked(u.host.addr)  \* literal address
    ELSE IF dns.raises THEN FALSE                             \* except Exception
    ELSE IF \E a \in dns.addrs : AnyBlocked(a) THEN FALSE
    ELSE TRUE

\* sample addresses: both sides of every blocked network's edges
GuardAddrs ==
    { Addr4(10, 0, 0, 1), Addr4(10, 255, 255, 255), Addr4(9, 255, 255, 255),
      Addr4(11, 0, 0, 0), Addr4(172, 16, 0, 1), Addr4(172, 31, 255, 255),
      Addr4(172, 15, 255, 255), Addr4(172, 32, 0, 0), Addr4(192, 168, 1, 1),
      Addr4(192, 167, 255, 255), Addr4(192, 169, 0, 0), Addr4(127, 0, 0, 1),
      Addr4(127, 255, 255, 255), Addr4(126, 255, 255, 255), Addr4(128, 0, 0, 0),
      Addr4(169, 254, 1, 1), Addr4(169, 253, 255, 255), Addr4(169, 255, 0, 0),
      Addr4(0, 0, 0, 0), Addr4(0, 255, 255, 255), Addr4(1, 0, 0, 0),
      Addr4(8, 8, 8, 8),
      Addr6(<<0, 0, 0, 0, 0, 0, 0, 1>>), Addr6(<<0, 0, 0, 0, 0, 0, 0, 0>>),
      Addr6(<<0, 0, 0, 0, 0, 0, 0, 2>>), Addr6(<<64512, 0, 0, 0, 0, 0, 0, 0>>),
      Addr6(<<65023, 65535, 65535, 65535, 65535, 65535, 65535, 65535>>),
      Addr6(<<64511, 65535, 65535, 65535, 65535, 65535, 65535, 65535>>),
      Addr6(<<65024, 0, 0, 0, 0, 0, 0, 0>>),
      Addr6(<<8193, 3512, 0, 0, 0, 0, 0, 1>>),
      Addr6(<<0, 0, 0, 0, 0, 65535, 32512, 1>>) }

GuardSchemes == {"http", "https", "ftp", ""}
GuardHosts   == {NoHost, NameHost} \cup {LiteralHost(a) : a \in GuardAddrs}
GuardUrls ==
    {[parses |-> FALSE, scheme |-> "", host |-> NoHost]}
    \cup [parses : {TRUE}, scheme : GuardSchemes, host : GuardHosts]
DnsOutcomes ==
    {DnsRaises} \cup
    {DnsAnswer({f[j] : j \in 1..MaxResolved}) : f \in [1..MaxResolved -> GuardAddrs]}

\* the code reaches getaddrinfo only for a parsed http(s) URL whose host is a name
ReachesDns(u) ==
    u.parses /\ u.scheme \in {"http", "https"} /\ u.host.kind = "name"

(***************************************************************************)
(* Scoring aggregator: score_calculator.py.                                *)
(*                                                                         *)
(* A check result is a dict, a function from its field names to Python     *)
(* values; anything else stored under a check name (None, a string) is a   *)
(* tagged Python value, which has the field "t" no dict has.               *)
(* Numbers are exact rationals [num, den]: the floats of the code hold the *)
(* integers of this model exactly, and the one division (broken links)     *)
(* is kept as a fraction.                                                  *)
(***************************************************************************)
IsDict(d) == "t" \notin DOMAIN d
\* `not data or not isinstance(data, dict)`
NotADict(d) == ~IsDict(d) \/ DOMAIN d = {}
EmptyDict == [x \in {} |-> PyNone]

WEIGHTS ==
    << [name |-> "speed",            key |-> "score",    weight |-> 15, bool |-> FALSE],
       [name |-> "ssl",              key |-> "valid",    weight |-> 10, bool |-> TRUE],
       [name |-> "security_headers", key |-> "score",    weight |-> 12, bool |-> FALSE],
       [name |-> "core_web_vitals",  key |-> "score",    weight |-> 12, bool |-> FALSE],
       [name |-> "seo",              key |-> "score",    weight |-> 10, bool |-> FALSE],
       [name |-> "accessibility",    key |-> "score",    weight |-> 10, bool |-> FALSE],
       [name |-> "html_validation",  key |-> "score",    weight |-> 8,  bool |-> FALSE],
       [name |-> "content_quality",  key |-> "score",    weight |-> 8,  bool |-> FALSE],
       [name |-> "broken_links",     key |-> "_derived", weight |-> 8,  bool |-> FALSE],
       [name |-> "cookies_gdpr",     key |-> "score",    weight |-> 7,  bool |-> FALSE],
       [name |-> "pwa",              key |-> "score",    weight |-> 5,  bool |-> FALSE],
       [name |-> "functionality",    key |-> "score",    weight |-> 5,  bool |-> FALSE] >>

WeightedNames == {WEIGHTS[j].name : j \in 1..Len(WEIGHTS)}

NoValue      == [t |-> "none"]
Value(n, d)  == [t |-> "val", num |-> n, den |-> d]
Raised       == [t |-> "raise"]

\* float(val) of the numeric-score branch: None when float() raises (the
\* strings of this model are not numerals)
FloatOf(v) ==
    CASE v.t = "int"  -> Value(v.v, 1)
      [] v.t = "bool" -> Value(IF v.v THEN 1 ELSE 0, 1)
      [] OTHER        -> NoValue              \* TypeError, ValueError -> None

\* the boolean branch: None for a null, else 100.0 if raw else 0.0
BoolValue(raw) ==
    IF raw.t = "none" THEN NoValue
    ELSE Value(IF Truthy(raw) THEN 100 ELSE 0, 1)

\* the numeric-score branch with a null score read as 0 instead of skipped
NumValueNullAsZero(val) ==
    IF val.t = "none" THEN Value(0, 1) ELSE FloatOf(val)

\* the numeric-score branch: None for a null, else float(val)
NumValue(val) ==
    IF val.t = "none" THEN NoValue ELSE FloatOf(val)

\* the ratio without the max(0.0, ...) around it
DerivedRatioUnfloored(broken, total) ==
    IF broken.t # "list" \/ total.t # "int" THEN Raised
    ELSE Value(100 * total.v - 200 * broken.n, total.v)

\* max(0.0, 100.0 - (len(broken) / total) * 200)
DerivedRatio(broken, total) ==
    IF broken.t # "list" \/ total.t # "int" THEN Raised       \* len(), / raise
    ELSE IF 100 * total.v - 200 * broken.n < 0 THEN Value(0, 1)
    ELSE Value(100 * total.v - 200 * broken.n, total.v)

\* `data.get("total_checked", 1) or 1`
OrOne(raw) == IF Truthy(raw) THEN raw ELSE PyInt(1)

\* the derived branch: the broken-links ratio
DerivedBroken(data) ==
    DerivedRatio(GetOr(data, "broken", PyList(0)),
                 OrOne(GetOr(data, "total_checked", PyInt(1))))

\* _extract_value(data, cfg): a 0-100 value, None, or an escaping exception
_extract_value(data, cfg) ==
    IF NotADict(data) THEN NoValue
    ELSE IF cfg.bool THEN BoolValue(Get(data, cfg.key))
    ELSE IF cfg.key = "_derived" THEN DerivedBroken(data)
    ELSE NumValue(Get(data, cfg.key))

\* the loop without the clamp
NoClamp(v) == v

\* val = max(0.0, min(100.0, val))
Clamp(v) ==
    IF v.num < 0 THEN Value(0, 1)
    ELSE IF v.num > 100 * v.den THEN Value(100, 1)
    ELSE v

\* round(n / d) of Python 3 for n >= 0, d > 0: ties go to the even integer
Round(n, d) ==
    IF 2 * (n % d) < d THEN n \div d
    ELSE IF 2 * (n % d) > d THEN (n \div d) + 1
    ELSE IF (n \div d) % 2 = 0 THEN n \div d ELSE (n \div d) + 1

\* total_weight += cfg["weight"]; weighted_sum += val * cfg["weight"]
ScoreAdd(acc, cfg, c) ==
    [raised |-> FALSE,
     tw  |-> acc.tw + cfg.weight,
     num |-> acc.num * c.den + cfg.weight * c.num * acc.den,
     den |-> acc.den * c.den]

\* one pass of the loop body of calculate_score
ScoreStep(acc, cfg, val) ==
    IF acc.raised THEN acc
    ELSE IF val.t = "raise" THEN [acc EXCEPT !.raised = TRUE]
    ELSE IF val.t = "none" THEN acc                           \* continue
    ELSE ScoreAdd(acc, cfg, Clamp(val))

\* the loop of calculate_score over WEIGHTS[1..j]:
\* total_weight tw and weighted_sum num/den, or the exception that escaped
RECURSIVE ScoreLoop(_, _)
ScoreLoop(res, j) ==
    IF j = 0 THEN [raised |-> FALSE, tw |-> 0, num |-> 0, den |-> 1]
    ELSE ScoreStep(ScoreLoop(res, j - 1), WEIGHTS[j],
                   _extract_value(Get(res, WEIGHTS[j].name), WEIGHTS[j]))

\* if total_weight == 0: return 0; return round(weighted_sum / total_weight)
ScoreOf(acc) ==
    IF acc.raised THEN [raised |-> TRUE, score |-> 0]
    ELSE IF acc.tw = 0 THEN [raised |-> FALSE, score |-> 0]
    ELSE [raised |-> FALSE, score |-> Round(acc.num, acc.den * acc.tw)]

\* calculate_score(result)
calculate_score(res) == ScoreOf(ScoreLoop(res, Len(WEIGHTS)))

\* the label of generate_summary
SummaryLabel(score) ==
    IF score >= 80 THEN "excellent"
    ELSE IF score >= 60 THEN "good"
    ELSE IF score >= 40 THEN "fair" ELSE "poor"

\* the SSL fragment of generate_summary
SslIssue(valid, days) ==
    IF valid = PyBool(FALSE) THEN <<"invalid SSL certificate">>
    ELSE IF Truthy(days) /\ days.v < 14 THEN <<"SSL expiring">>
    ELSE <<>>

\* the load-time fragment
SpeedIssue(load) ==
    IF Truthy(load) /\ load.v > 3000 THEN <<"slow load time">> ELSE <<>>

\* the fragment of a 0-100 score below 50
LowScoreIssue(score, text) ==
    IF score.t # "none" /\ score.v < 50 THEN <<text>> ELSE <<>>

\* generate_summary(score, result): the label and the issue fragments
generate_summary(score, res) ==
    [t |-> "summary", label |-> SummaryLabel(score), score |-> score,
     issues |->
        SslIssue(Get(GetOr(res, "ssl", EmptyDict), "valid"),
                 Get(GetOr(res, "ssl", EmptyDict), "expires_in_days"))
        \o SpeedIssue(Get(GetOr(res, "speed", EmptyDict), "load_time_ms"))
        \o (IF Truthy(Get(GetOr(res, "broken_links", EmptyDict), "broken"))
            THEN <<"broken link(s)">> ELSE <<>>)
        \o LowScoreIssue(Get(GetOr(res, "security_headers", EmptyDict), "score"),
                         "weak security headers")
        \o LowScoreIssue(Get(GetOr(res, "seo", EmptyDict), "score"), "poor SEO")]

\* the dict score_and_summarize returns for the score sc
Scored(sc, res) ==
    IF sc.raised THEN [raised |-> TRUE]
    ELSE [raised |-> FALSE, overall_score |-> PyInt(sc.score),
          summary |-> generate_summary(sc.score, res)]

\* score_and_summarize(result): the two values, or the exception that escaped
score_and_summarize(res) == Scored(calculate_score(res), res)

(***************************************************************************)
(* Persistence: db_results.py.  The store maps a test id to its document.  *)
(***************************************************************************)
Tid == "t1"

\* the document save_result stores for `data`; n numbers the uuid4 it draws
StoredDoc(data, n) ==
    LET d1 == Put(Put(data, "test_id", PyStr(Tid)), "saved_at", PyStr("iso"))
    IN  IF Truthy(Get(d1, "share_token")) THEN d1
        ELSE Put(d1, "share_token", PyInt(n))

\* save_result that stores nothing
save_result_lost(store, data, n) == store

\* save_result(test_id, data): replace_one(..., upsert=True) / _mem[test_id] = data
save_result(store, data, n) == Put(store, Tid, StoredDoc(data, n))

\* get_result(test_id): the document, or None
get_result(store) == Get(store, Tid)

(***************************************************************************)
(* The checks of _run_all and what they can return.                        *)
(***************************************************************************)
Stage1Keys == <<"speed", "ssl", "broken_links", "images", "mobile", "js_errors">>
Stage2Keys == <<"seo", "accessibility", "security_headers", "core_web_vitals",
                "cookies_gdpr", "html_validation", "content_quality", "pwa",
                "functionality">>

\* _check_speed ... _check_js_errors: the dicts their return statements build
Stage1Outcomes(key) ==
    CASE key = "speed" ->
           { [status |-> PyStr("pass"), score |-> PyInt(95),
              load_time_ms |-> PyInt(500), message |-> PyStr("Page loaded")],
             [status |-> PyStr("error"), score |-> PyInt(0),
              message |-> PyStr("connection error")] }
      [] key = "ssl" ->
           { [status |-> PyStr("pass"), valid |-> PyBool(TRUE),
              expires_in_days |-> PyInt(90), message |-> PyStr("SSL valid")],
             [status |-> PyStr("not_https"), valid |-> PyBool(FALSE),
              message |-> PyStr("Site does not use HTTPS")] }
      [] key = "broken_links" ->
           { [status |-> PyStr("pass"), total_checked |-> PyInt(10),
              broken |-> PyList(0), message |-> PyStr("0 broken")],
             [status |-> PyStr("warning"), total_checked |-> PyInt(20),
              broken |-> PyList(3), message |-> PyStr("3 broken")],
             [status |-> PyStr("error"), message |-> PyStr("connection error"),
              broken |-> PyList(0), total_checked |-> PyInt(0)] }
      [] key = "images" ->
           { [status |-> PyStr("pass"), total_images |-> PyInt(4),
              missing_count |-> PyInt(0), message |-> PyStr("All images OK")],
             [status |-> PyStr("error"), message |-> PyStr("connection error"),
              total_images |-> PyInt(0), missing_count |-> PyInt(0)] }
      [] key = "mobile" ->
           { [status |-> PyStr("pass"), score |-> PyInt(100),
              message |-> PyStr("Mobile-friendly")] }
      [] OTHER ->
           { [status |-> PyStr("pass"), error_count |-> PyInt(0),
              errors |-> PyList(0),
              message |-> PyStr("JS error capture requires browser")] }

\* one outcome per check: the site that answers
Stage1Healthy(key) ==
    { CHOOSE o \in Stage1Outcomes(key) : Get(o, "status") = PyStr("pass") }

\* _check_js_errors opens no connection; the five other checks do
IssuesRequest(key) == key # "js_errors"

\* the score an advanced check returns for the sample site
ProbeScore(key) ==
    CASE key = "seo" -> 80
      [] key = "accessibility" -> 70
      [] key = "security_headers" -> 40
      [] key = "core_web_vitals" -> 90
      [] key = "cookies_gdpr" -> 100
      [] key = "html_validation" -> 60
      [] key = "content_quality" -> 75
      [] key = "pwa" -> 30
      [] OTHER -> 100

\* what a check_* function returns when it does not raise
ProbeReturn(key) ==
    [status |-> PyStr(IF ProbeScore(key) >= 80 THEN "pass" ELSE "warning"),
     score |-> PyInt(ProbeScore(key)), issues |-> PyList(0)]
\* the exception object gather(return_exceptions=True) puts in place of a result
ProbeException == [t |-> "exc", v |-> "probe failed"]

\* the results of asyncio.gather, one per key of Stage2Keys
GatherVectors(S) ==
    { [j \in 1..Len(Stage2Keys) |->
          IF Stage2Keys[j] \in R THEN ProbeException ELSE ProbeReturn(Stage2Keys[j])]
      : R \in S }
Stage2Set == {Stage2Keys[j] : j \in 1..Len(Stage2Keys)}
AnyRaising == {R \in SUBSET Stage2Set : Cardinality(R) <= MaxRaising}
SeoOrNone  == {{}, {"seo"}}

\* the coercion of a raised exception with the text under "message"
CoerceAsMessage(val) ==
    IF "t" \in DOMAIN val /\ val.t = "exc"
    THEN [status |-> PyStr("error"), score |-> PyInt(0), message |-> PyStr(val.v)]
    ELSE val

\* `if isinstance(val, Exception): val = {"status": "error", "score": 0, "error": str(val)}`
Coerce(val) ==
    IF "t" \in DOMAIN val /\ val.t = "exc"
    THEN [status |-> PyStr("error"), score |-> PyInt(0), error |-> PyStr(val.v)]
    ELSE val

\* what run_login_test returns: (login_success, login_msg, js_check, post_login)
LoginReturns ==
    { [success |-> FALSE, js_check |-> TRUE, post_login |-> FALSE],
      [success |-> TRUE,  js_check |-> TRUE, post_login |-> FALSE],
      [success |-> TRUE,  js_check |-> TRUE, post_login |-> TRUE] }
NoLogin == [success |-> FALSE, js_check |-> FALSE, post_login |-> FALSE]

\* the login stage writing its `login` key a second time
LoginStepsLoginTwice(ret) ==
    <<"login", "login">> \o (IF ret.js_check THEN <<"js_errors">> ELSE <<>>)

\* the _step calls of the login stage, in order, for one return value
LoginSteps(ret) ==
    <<"login">> \o (IF ret.post_login THEN <<"post_login">> ELSE <<>>)
                \o (IF ret.js_check THEN <<"js_errors">> ELSE <<>>)

LoginValue(ret, key) ==
    CASE key = "login" ->
           [success |-> PyBool(ret.success), message |-> PyStr("login message"),
            status |-> PyStr(IF ret.success THEN "pass" ELSE "fail")]
      [] key = "post_login" ->
           [status |-> PyStr("pass"), buttons_found |-> PyInt(2)]
      [] OTHER ->
           [status |-> PyStr("warning"), error_count |-> PyInt(1),
            errors |-> PyList(1), message |-> PyStr("1 JS error")]

PublicUrl  == [parses |-> TRUE, scheme |-> "https",
               host |-> LiteralHost(Addr4(8, 8, 8, 8))]
PrivateUrl == [parses |-> TRUE, scheme |-> "http",
               host |-> LiteralHost(Addr4(169, 254, 169, 254))]
RunUrls    == {PublicUrl, PrivateUrl}

(***************************************************************************)
(* ConnectionManager.broadcast and the messages sent over the sockets.     *)
(***************************************************************************)
Sockets == {"ws1"}
Registered(w) == \E j \in 1..Len(conns) : conns[j] = w

StepMsg(key, value) == [step |-> PyStr(key), data |-> value, done |-> PyBool(FALSE)]
DoneMsg(res) ==
    [done |-> PyBool(TRUE), test_id |-> PyStr(Tid),
     overall_score |-> Get(res, "overall_score"), summary |-> Get(res, "summary")]

\* manager.broadcast(tid, msg): one send_text per registered socket; the
\* sockets in `dead` raise on send and are dropped from the registry
broadcast(msg, dead) ==
    /\ bcastLog' = Append(bcastLog, msg)
    /\ inbox' = [w \in Sockets |->
                   IF Registered(w) /\ w \notin dead
                   THEN Append(inbox[w], msg) ELSE inbox[w]]
    /\ conns' = SelectSeq(conns, LAMBDA w : w \notin dead)
    /\ UNCHANGED <<wsPc, wsSnap, wsEarly>>

(***************************************************************************)
(* The run: entry points and _run_all.                                     *)
(***************************************************************************)
BaseResult(u, uid) ==
    [test_id |-> PyStr(Tid), url |-> [t |-> "url", v |-> u],
     user_id |-> (IF uid = "" THEN PyNone ELSE PyStr(uid)),
     status |-> PyStr("running"), started_at |-> PyStr("iso")]

\* except Exception as e: status failed, error str(e)
Failed(res, msg) == Put(Put(res, "status", PyStr("failed")), "error", PyStr(msg))

\* result["overall_score"] = scored["overall_score"]; result["summary"] = ...
SetScore(res, scored) ==
    Put(Put(res, "overall_score", scored.overall_score), "summary", scored.summary)

\* the finally block scoring every run it sees, whatever its status
RescoreAlways(res) == SetScore(res, score_and_summarize(res))

\* `if status == "completed" and overall_score is None:` score once more
Rescore(res) ==
    IF Get(res, "status") = PyStr("completed") /\ Get(res, "overall_score").t = "none"
    THEN SetScore(res, score_and_summarize(res))
    ELSE res

\* the head of the finally block, up to its first await
EnterFinally(res) == Rescore(Put(res, "finished_at", PyStr("iso")))

\* an exception reaches the handler of _run_all: except, then the finally head
Raise(where) ==
    /\ result' = EnterFinally(Failed(result, where))
    /\ excLog' = Append(excLog, where)
    /\ pc' = "fin_save"

\* POST /run with create_task(_run_all(...)) ahead of the guard's verdict
run_tests_task_first(CredChoices) ==
    /\ pc = "idle"
    /\ \E u \in RunUrls, c \in CredChoices :
         /\ url' = u
         /\ entry' = "post_run"
         /\ guardOk' = _safe_url(u, DnsUnused)
         /\ creds' = c /\ userId' = "u1" /\ pc' = "start"
    /\ UNCHANGED <<idx, netReqs, result, db, gathered, loginRet, excLog, stepLog,
                   bcastLog, saves, started, notified, wsVars, guardVars, scoreVars,
                   unitVars>>

\* POST /run: _assert_safe, then create_task(_run_all(...))
run_tests(CredChoices) ==
    /\ pc = "idle"
    /\ \E u \in RunUrls, c \in CredChoices :
         /\ url' = u
         /\ entry' = "post_run"
         /\ IF _safe_url(u, DnsUnused)
            THEN guardOk' = TRUE /\ creds' = c /\ userId' = "u1" /\ pc' = "start"
            ELSE guardOk' = FALSE /\ creds' = FALSE /\ userId' = "" /\ pc' = "rejected"
    /\ UNCHANGED <<idx, netReqs, result, db, gathered, loginRet, excLog, stepLog,
                   bcastLog, saves, started, notified, wsVars, guardVars, scoreVars,
                   unitVars>>

\* cicd_router._trigger_test(config["target_url"], user_id)
_trigger_test ==
    /\ pc = "idle"
    /\ \E u \in RunUrls : url' = u
    /\ entry' = "cicd" /\ creds' = FALSE /\ userId' = "u1" /\ pc' = "start"
    /\ UNCHANGED <<idx, guardOk, netReqs, result, db, gathered, loginRet, excLog,
                   stepLog, bcastLog, saves, started, notified, wsVars, guardVars,
                   scoreVars, unitVars>>

\* scheduler._run_scheduled_test for an active schedule: await _run_all(...)
_run_scheduled_test ==
    /\ pc = "idle"
    /\ \E u \in RunUrls : url' = u
    /\ entry' = "scheduler" /\ creds' = FALSE /\ userId' = "u1" /\ pc' = "start"
    /\ UNCHANGED <<idx, guardOk, netReqs, result, db, gathered, loginRet, excLog,
                   stepLog, bcastLog, saves, started, notified, wsVars, guardVars,
                   scoreVars, unitVars>>

\* _run_all up to its first save (line 340, outside the try)
RunAllBegin ==
    /\ pc = "start"
    /\ result' = BaseResult(url, userId)
    /\ \/ /\ db' = save_result(db, result', saves + 1)
          /\ saves' = saves + 1
          /\ pc' = "s1_start" /\ idx' = 1
          /\ UNCHANGED excLog
       \/ /\ excLog' = Append(excLog, "first_save")      \* save_result raised
          /\ pc' = "crashed"
          /\ UNCHANGED <<db, saves, idx>>
    /\ UNCHANGED <<entry, url, guardOk, netReqs, creds, userId, gathered, loginRet,
                   stepLog, bcastLog, started, notified, wsVars, guardVars, scoreVars, unitVars>>

\* loop.run_in_executor(None, _check_<key>, url): the check starts
CheckStart ==
    /\ pc = "s1_start"
    /\ started' = Append(started, Stage1Keys[idx])
    /\ netReqs' = netReqs + (IF IssuesRequest(Stage1Keys[idx]) THEN 1 ELSE 0)
    /\ pc' = "s1_step"
    /\ UNCHANGED <<idx, entry, url, guardOk, creds, userId, result, db, gathered,
                   loginRet, excLog, stepLog, bcastLog, saves, notified, wsVars,
                   guardVars, scoreVars, unitVars>>

\* the executor raised instead of returning the check's dict
CheckRaises ==
    /\ pc = "s1_step"
    /\ Raise("check")
    /\ UNCHANGED <<idx, entry, url, guardOk, netReqs, creds, userId, db, gathered,
                   loginRet, stepLog, bcastLog, saves, started, notified, wsVars,
                   guardVars, scoreVars, unitVars>>

\* _step, first half: result[key] = value; await manager.broadcast(...)
StepBroadcast(key, value, next) ==
    /\ result' = Put(result, key, value)
    /\ broadcast(StepMsg(key, value), {})
    /\ pc' = next
    /\ UNCHANGED <<idx, entry, url, guardOk, netReqs, creds, userId, db, gathered,
                   loginRet, excLog, stepLog, saves, started, notified, guardVars,
                   scoreVars, unitVars>>

\* _step, second half: await save_result(tid, result.copy()), which may raise
StepSave(key, next, nextIdx) ==
    /\ \/ /\ db' = save_result(db, result, saves + 1)
          /\ saves' = saves + 1
          /\ stepLog' = Append(stepLog, key)
          /\ pc' = next /\ idx' = nextIdx
          /\ UNCHANGED <<result, excLog>>
       \/ /\ Raise("step_save")
          /\ UNCHANGED <<db, saves, stepLog, idx>>
    /\ UNCHANGED <<entry, url, guardOk, netReqs, creds, userId, gathered, loginRet,
                   bcastLog, started, notified, wsVars, guardVars, scoreVars, unitVars>>

\* Stage 1: the check returned; _step is entered
Stage1Step(healthyOnly) ==
    /\ pc = "s1_step"
    /\ \E v \in (IF healthyOnly THEN Stage1Healthy(Stage1Keys[idx])
                 ELSE Stage1Outcomes(Stage1Keys[idx])) :
         StepBroadcast(Stage1Keys[idx], v, "s1_save")

Stage1Save ==
    /\ pc = "s1_save"
    /\ IF idx < Len(Stage1Keys)
       THEN StepSave(Stage1Keys[idx], "s1_start", idx + 1)
       ELSE StepSave(Stage1Keys[idx], "gather", 0)

\* await asyncio.gather(..., return_exceptions=True) over the nine probes
Gather(Raising) ==
    /\ pc = "gather"
    /\ \E g \in GatherVectors(Raising) : gathered' = g
    /\ netReqs' = netReqs + Len(Stage2Keys)
    /\ pc' = "s2_step" /\ idx' = 1
    /\ UNCHANGED <<entry, url, guardOk, creds, userId, result, db, loginRet, excLog,
                   stepLog, bcastLog, saves, started, notified, wsVars, guardVars,
                   scoreVars, unitVars>>

\* Stage 2: the loop body, coercion and _step, for Stage2Keys[idx]
Stage2Step ==
    /\ pc = "s2_step"
    /\ StepBroadcast(Stage2Keys[idx], Coerce(gathered[idx]), "s2_save")

Stage2Save ==
    /\ pc = "s2_save"
    /\ IF idx < Len(Stage2Keys)
       THEN StepSave(Stage2Keys[idx], "s2_step", idx + 1)
       ELSE StepSave(Stage2Keys[idx], "login", 0)

\* Stage 3 is skipped: `if username and enc_pw` is false
LoginSkip ==
    /\ pc = "login" /\ ~creds
    /\ pc' = "score"
    /\ UNCHANGED <<idx, entry, url, guardOk, netReqs, creds, userId, result, db,
                   gathered, loginRet, excLog, stepLog, bcastLog, saves, started,
                   notified, wsVars, guardVars, scoreVars, unitVars>>

\* decrypt_credential and run_login_test returned
LoginRun ==
    /\ pc = "login" /\ creds
    /\ \E ret \in LoginReturns : loginRet' = ret
    /\ pc' = "l_step" /\ idx' = 1
    /\ UNCHANGED <<entry, url, guardOk, netReqs, creds, userId, result, db, gathered,
                   excLog, stepLog, bcastLog, saves, started, notified, wsVars,
                   guardVars, scoreVars, unitVars>>

\* decrypt_credential raised ValueError, or run_login_test raised
LoginRaises ==
    /\ pc = "login" /\ creds
    /\ Raise("login")
    /\ UNCHANGED <<idx, entry, url, guardOk, netReqs, creds, userId, db, gathered,
                   loginRet, stepLog, bcastLog, saves, started, notified, wsVars,
                   guardVars, scoreVars, unitVars>>

\* Stage 3: the _step calls for login, post_login and js_errors
LoginStep ==
    /\ pc = "l_step"
    /\ StepBroadcast(LoginSteps(loginRet)[idx],
                     LoginValue(loginRet, LoginSteps(loginRet)[idx]), "l_save")

LoginSave ==
    /\ pc = "l_save"
    /\ IF idx < Len(LoginSteps(loginRet))
       THEN StepSave(LoginSteps(loginRet)[idx], "l_step", idx + 1)
       ELSE StepSave(LoginSteps(loginRet)[idx], "score", 0)

\* scored = score_and_summarize(result); overall_score, summary, status completed
Score ==
    /\ pc = "score"
    /\ IF score_and_summarize(result).raised
       THEN Raise("score")
       ELSE /\ result' = EnterFinally(Put(SetScore(result, score_and_summarize(result)),
                                          "status", PyStr("completed")))
            /\ pc' = "fin_save"
            /\ UNCHANGED excLog
    /\ UNCHANGED <<idx, entry, url, guardOk, netReqs, creds, userId, db, gathered,
                   loginRet, stepLog, bcastLog, saves, started, notified, wsVars,
                   guardVars, scoreVars, unitVars>>

\* finally: await save_result(tid, result.copy()); an exception here leaves _run_all
FinalSave ==
    /\ pc = "fin_save"
    /\ \/ /\ db' = save_result(db, result, saves + 1)
          /\ saves' = saves + 1
          /\ pc' = "fin_bcast"
          /\ UNCHANGED excLog
       \/ /\ excLog' = Append(excLog, "final_save")
          /\ pc' = "crashed"
          /\ UNCHANGED <<db, saves>>
    /\ UNCHANGED <<idx, entry, url, guardOk, netReqs, creds, userId, result, gathered,
                   loginRet, stepLog, bcastLog, started, notified, wsVars, guardVars,
                   scoreVars, unitVars>>

\* finally: await manager.broadcast(tid, {"done": True, ...})
FinalBroadcast ==
    /\ pc = "fin_bcast"
    /\ broadcast(DoneMsg(result), {})
    /\ pc' = "notify"
    /\ UNCHANGED <<idx, entry, url, guardOk, netReqs, creds, userId, result, db,
                   gathered, loginRet, excLog, stepLog, saves, started, notified,
                   guardVars, scoreVars, unitVars>>

\* finally: `if user_id:` create_task(notify_on_complete), create_task(notify_slack...)
Notify ==
    /\ pc = "notify"
    /\ notified' = notified + (IF userId # "" THEN 1 ELSE 0)
    /\ pc' = "done"
    /\ UNCHANGED <<idx, entry, url, guardOk, netReqs, creds, userId, result, db,
                   gathered, loginRet, excLog, stepLog, bcastLog, saves, started,
                   wsVars, guardVars, scoreVars, unitVars>>

\* cicd_router._run_github_test after _trigger_test: _wait_for_result returns
\* the terminal record (or None on timeout), then notify_slack_on_complete
\* and notify_on_complete are awaited when the config asks for them
\* (notify_slack and notify_email default to True)
_run_github_test ==
    /\ entry = "cicd"
    /\ pc \in {"done", "crashed"}
    /\ \E notify \in BOOLEAN : notified' = notified + (IF notify THEN 1 ELSE 0)
    /\ pc' = "reported"
    /\ UNCHANGED <<idx, entry, url, guardOk, netReqs, creds, userId, result, db,
                   gathered, loginRet, excLog, stepLog, bcastLog, saves, started,
                   wsVars, guardVars, scoreVars, unitVars>>

(***************************************************************************)
(* ws_endpoint: register, read the stored document, send it as a snapshot. *)
(***************************************************************************)
IsDone(doc) ==
    \/ Get(doc, "status") \in {PyStr("completed"), PyStr("failed")}
    \/ Truthy(Get(doc, "finished_at"))
SnapshotMsg(doc) == [snapshot |-> doc, done |-> PyBool(IsDone(doc))]
NoSnap == [t |-> "unread"]

\* await manager.connect(test_id, websocket); the id is known once a run was started
ws_connect(w) ==
    /\ wsPc[w] = "new"
    /\ pc \notin {"idle", "rejected"}
    /\ conns' = Append(conns, w)
    /\ wsPc' = [wsPc EXCEPT ![w] = "accepted"]
    /\ wsEarly' = [wsEarly EXCEPT
                     ![w] = (bcastLog = <<>> /\ pc \notin {"done", "crashed"})]
    /\ UNCHANGED <<wsSnap, inbox, runVars, guardVars, scoreVars, unitVars>>

\* existing = await get_result(test_id)
ws_read(w) ==
    /\ wsPc[w] = "accepted"
    /\ wsSnap' = [wsSnap EXCEPT ![w] = get_result(db)]
    /\ wsPc' = [wsPc EXCEPT ![w] = "read"]
    /\ UNCHANGED <<conns, inbox, wsEarly, runVars, guardVars, scoreVars, unitVars>>

\* `if existing:` send the snapshot; when it is done, disconnect and close
ws_snapshot(w) ==
    /\ wsPc[w] = "read"
    /\ IF NotADict(wsSnap[w])
       THEN /\ wsPc' = [wsPc EXCEPT ![w] = "listening"]
            /\ UNCHANGED <<inbox, conns>>
       ELSE /\ inbox' = [inbox EXCEPT ![w] = Append(@, SnapshotMsg(wsSnap[w]))]
            /\ IF IsDone(wsSnap[w])
               THEN /\ conns' = SelectSeq(conns, LAMBDA x : x # w)
                    /\ wsPc' = [wsPc EXCEPT ![w] = "closed"]
               ELSE /\ wsPc' = [wsPc EXCEPT ![w] = "listening"]
                    /\ UNCHANGED conns
    /\ UNCHANGED <<wsSnap, wsEarly, runVars, guardVars, scoreVars, unitVars>>

(***************************************************************************)
(* _safe_url and calculate_score on their own.                             *)
(***************************************************************************)
\* _safe_url(gUrl), getaddrinfo answering with one of DnsOutcomes
GuardCheck ==
    /\ gVerdict = "pending"
    /\ \E d \in (IF ReachesDns(gUrl) THEN DnsOutcomes ELSE {DnsUnused}) :
         /\ gDns' = d
         /\ gVerdict' = IF _safe_url(gUrl, d) THEN "accepted" ELSE "rejected"
    /\ UNCHANGED <<gUrl, scoreVars, unitVars, runVars, wsVars>>

\* the check names the result dicts of SpecScore are built from
SampleChecks == {"speed", "ssl", "seo", "security_headers", "broken_links", "pwa"}

\* what can be stored under a check name
CheckEntries(name) ==
    {PyNone} \cup
    CASE name = "ssl" ->
           { [status |-> PyStr("pass"), valid |-> PyBool(TRUE)],
             [status |-> PyStr("not_https"), valid |-> PyBool(FALSE)],
             [status |-> PyStr("error"), valid |-> PyNone] }
      [] name = "broken_links" ->
           { [status |-> PyStr("pass"), total_checked |-> PyInt(10), broken |-> PyList(0)],
             [status |-> PyStr("warning"), total_checked |-> PyInt(20), broken |-> PyList(3)],
             [status |-> PyStr("warning"), total_checked |-> PyInt(3), broken |-> PyList(1)],
             [status |-> PyStr("fail"), total_checked |-> PyInt(2), broken |-> PyList(5)],
             [status |-> PyStr("error"), total_checked |-> PyInt(0), broken |-> PyList(0)] }
      [] OTHER ->
           { [status |-> PyStr("error"), message |-> PyStr("no score")],
             [status |-> PyStr("error"), score |-> PyNone],
             [status |-> PyStr("error"), score |-> PyInt(0), error |-> PyStr("boom")],
             [status |-> PyStr("warning"), score |-> PyInt(55)],
             [status |-> PyStr("pass"), score |-> PyInt(130)],
             [status |-> PyStr("fail"), score |-> PyInt(-20)],
             [status |-> PyStr("pass"), score |-> PyStr("n/a")] }

ScorePending == [done |-> FALSE]

\* one more check result is stored in the result dict
ScoreAddCheck ==
    /\ sOut = ScorePending
    /\ Cardinality(DOMAIN sResult) < MaxChecks
    /\ \E name \in SampleChecks \ DOMAIN sResult :
         \E e \in CheckEntries(name) : sResult' = Put(sResult, name, e)
    /\ UNCHANGED <<sOut, guardVars, unitVars, runVars, wsVars>>

\* calculate_score(sResult)
ScoreCalc ==
    /\ sOut = ScorePending
    /\ sOut' = [done |-> TRUE, out |-> calculate_score(sResult)]
    /\ UNCHANGED <<sResult, guardVars, unitVars, runVars, wsVars>>

(***************************************************************************)
(* _extract_value on the record of _check_broken_links, on its own.        *)
(***************************************************************************)
\* the dict _check_broken_links returns: `checked` holds the links that
\* answered, `broken` those that answered >= 400 or raised
BrokenLinksRecord(checked, broken) ==
    [status |-> PyStr(IF broken = 0 THEN "pass"
                      ELSE IF broken <= 3 THEN "warning" ELSE "fail"),
     total_checked |-> PyInt(checked), broken |-> PyList(broken),
     message |-> PyStr("broken link(s) found")]

BrokenLinksRecords ==
    {BrokenLinksRecord(c, b) : c \in 0..MaxLinks, b \in 0..MaxLinks}

\* the entry of WEIGHTS for a check name
CfgOf(name) == WEIGHTS[CHOOSE j \in 1..Len(WEIGHTS) : WEIGHTS[j].name = name]

DerivedPending == [done |-> FALSE]

\* val = _extract_value(result.get("broken_links"), WEIGHTS["broken_links"])
DeriveBroken ==
    /\ bVal = DerivedPending
    /\ bVal' = [done |-> TRUE, val |-> _extract_value(bRec, CfgOf("broken_links"))]
    /\ UNCHANGED <<bRec, crawlVars, verdictVars, guardVars, scoreVars, exploreVars,
                   sessionVars, managerVars, rateVars, fanVars, frontierVars, interactVars,
                   reportVars, accessVars, runVars, wsVars>>

(***************************************************************************)
(* crawler.py: crawl_website over one small site.                          *)
(*                                                                         *)
(* A URL is what urlparse makes of it: its scheme, its netloc and its path *)
(* (each a sequence of tokens, so that `in` and startswith are the         *)
(* sub-sequence and prefix tests) and its query (the page number of the    *)
(* numbered pages).  The mobile analysis at the end of crawl_website reads *)
(* first_page_html only and is left out.                                   *)
(***************************************************************************)
Url(scheme, netloc, path, query) ==
    [scheme |-> scheme, netloc |-> netloc, path |-> path, query |-> query]

SiteNetloc == <<"site", ".", "example">>
StartUrl   == Url("https", SiteNetloc, <<"/">>, 0)
PageUrl(n) == Url("https", SiteNetloc, <<"/", "p">>, n)
DeepUrl    == Url("https", SiteNetloc, <<"/", "gone">>, 0)
OauthGoogle == Url("https", <<"Accounts", ".", "google", ".", "com">>,
                   <<"/", "o", "/", "oauth2", "/", "auth">>, 0)
GithubLogin == Url("https", <<"github", ".", "com">>,
                   <<"/", "login", "/", "oauth", "/", "authorize">>, 0)
SiteCallback == Url("https", SiteNetloc,
                    <<"/", "login", "/", "google", "/", "callback">>, 0)
ExternalUrl == Url("https", <<"other", ".", "example">>, <<"/">>, 0)
MailtoHref  == Url("mailto", <<>>, <<"team", "@", "site", ".", "example">>, 0)
LogoSrc     == Url("https", SiteNetloc, <<"/", "logo", ".", "png">>, 0)
OauthButtonSrc == Url("https", SiteNetloc,
                      <<"/", "login", "/", "google", "/", "button", ".", "png">>, 0)

\* str.lower() on one token
LowerToken(tok) ==
    CASE tok = "Accounts" -> "accounts"
      [] tok = "Dashboard" -> "dashboard"
      [] tok = "Invalid" -> "invalid"
      [] tok = "Welcome" -> "welcome"
      [] tok = "Delete" -> "delete"
      [] tok = "Account" -> "account"
      [] tok = "Remove" -> "remove"
      [] tok = "Sign" -> "sign"
      [] tok = "Save" -> "save"
      [] tok = "Send" -> "send"
      [] OTHER -> tok
Lower(s) == [j \in 1..Len(s) |-> LowerToken(s[j])]

\* `pattern in s`
Contains(s, pattern) ==
    \E j \in 0..(Len(s) - Len(pattern)) : SubSeq(s, j + 1, j + Len(pattern)) = pattern

\* s.startswith(pattern)
StartsWith(s, pattern) ==
    Len(pattern) <= Len(s) /\ SubSeq(s, 1, Len(pattern)) = pattern

_OAUTH_DOMAINS ==
    { <<"accounts", ".", "google", ".", "com">>,
      <<"oauth2", ".", "googleapis", ".", "com">>,
      <<"github", ".", "com", "/", "login">>,
      <<"login", ".", "microsoftonline", ".", "com">>,
      <<"login", ".", "live", ".", "com">>,
      <<"appleid", ".", "apple", ".", "com">>,
      <<"facebook", ".", "com", "/", "dialog">>,
      <<"twitter", ".", "com", "/", "i", "/", "oauth">>,
      <<"linkedin", ".", "com", "/", "oauth">>,
      <<"auth0", ".", "com">>,
      <<"okta", ".", "com">>,
      <<"cognito-idp", ".">> }

_OAUTH_PATH_PATTERNS ==
    { <<"/", "signin", "/", "v2", "/">>,
      <<"/", "lifecycle", "/", "flows", "/">>,
      <<"/", "login", "/", "google">>,
      <<"/", "login", "/", "github">>,
      <<"/", "login", "/", "facebook">>,
      <<"/", "oauth", "/", "authorize">>,
      <<"/", "oauth2", "/", "authorize">>,
      <<"/", "connect", "/", "authorize">> }

_is_oauth_url(u) ==
    \/ \E domain \in _OAUTH_DOMAINS : Contains(Lower(u.netloc), domain)
    \/ \E pattern \in _OAUTH_PATH_PATTERNS : StartsWith(Lower(u.path), pattern)

\* link_netloc == "" or link_netloc == base_netloc
_same_domain_any(base, link) == TRUE
_same_domain(base, link) ==
    link.netloc = <<>> \/ link.netloc = base.netloc

\* href.startswith(("mailto:", "tel:", "javascript:", "#"))
SkippedHref(a) == a.scheme \in {"mailto", "tel", "javascript", "fragment"}

\* ---- the site: what the start page answers and holds, and what a HEAD on
\* ---- anything that is not one of its pages answers
ExtraHrefs == <<OauthGoogle, GithubLogin, SiteCallback, ExternalUrl, MailtoHref>>
ImageSrcs  == <<LogoSrc, OauthButtonSrc>>
Statuses   == {200, 404, -1, -2}

Among(seq, S) == SelectSeq(seq, LAMBDA x : x \in S)
Range(seq) == {seq[j] : j \in 1..Len(seq)}

Sites ==
    { s \in [status : {200, 500, -1, -2}, html : BOOLEAN,
             nLinks : {0, 2, MaxStartLinks},
             extras : {E \in SUBSET Range(ExtraHrefs) : Cardinality(E) <= MaxExtras},
             images : SUBSET Range(ImageSrcs),
             probe  : Statuses] :
        s.status < 0 => ~s.html }

\* the pages of the site: the start page and the numbered pages it links to
IsSitePage(site, u) ==
    \/ u = StartUrl
    \/ u.netloc = SiteNetloc /\ u.path = <<"/", "p">> /\ u.query \in 1..site.nLinks

\* _fetch_html(url, session): (status_code, html), -1 timeout, -2 other error
_fetch_html(site, u) ==
    IF u = StartUrl THEN [status |-> site.status, html |-> site.html]
    ELSE IF IsSitePage(site, u) THEN [status |-> 200, html |-> TRUE]
    ELSE [status |-> site.probe, html |-> site.probe >= 0]

\* soup.find_all("a", href=True), each href resolved by _normalize_url
Anchors(site, u) ==
    IF u = StartUrl
    THEN [n \in 1..site.nLinks |-> PageUrl(n)] \o Among(ExtraHrefs, site.extras)
    ELSE IF IsSitePage(site, u) THEN <<StartUrl, DeepUrl>>
    ELSE <<>>

\* soup.find_all("img") with a src, each resolved by _normalize_url
Images(site, u) ==
    IF u = StartUrl THEN Among(ImageSrcs, site.images) ELSE <<>>

\* _check_link_status(url, session)
_check_link_status(site, u) ==
    IF IsSitePage(site, u) \/ u = LogoSrc THEN 200 ELSE site.probe

\* ---- crawl_website
CrawlOffSite == [status |-> 200, html |-> FALSE, nLinks |-> 0, extras |-> {},
                 images |-> {}, probe |-> 200]
NoCheck == [status |-> "none"]

\* `while queue and len(crawled_pages) < max_pages` without the page cap
LoopRunsUncapped(queue, pages, max_pages) == queue # <<>>

\* `while queue and len(crawled_pages) < max_pages`
LoopRuns(queue, pages, max_pages) ==
    queue # <<>> /\ Len(pages) < max_pages

CrawledPage(u, status, depth) == [url |-> u, status_code |-> status, depth |-> depth]

\* an href passes both `continue` tests of the anchor loop
KeptHref(a) == ~SkippedHref(a) /\ ~_is_oauth_url(a)

\* (full_url, url) for each anchor of the page
FoundOn(hrefs, u) == [j \in 1..Len(hrefs) |-> <<hrefs[j], u>>]

\* (full_url, depth + 1) for each anchor of the page
Deeper(hrefs, depth) == [j \in 1..Len(hrefs) |-> [url |-> hrefs[j], depth |-> depth + 1]]

\* all_links.append((full_url, url)) for the hrefs that are kept
LinksOf(site, u) ==
    SelectSeq(FoundOn(Anchors(site, u), u), LAMBDA found : KeptHref(found[1]))

\* queue.append((full_url, depth + 1)) for the kept hrefs of the same domain
\* that are not in visited
Enqueued(site, u, depth, visited) ==
    SelectSeq(Deeper(Anchors(site, u), depth),
              LAMBDA e : /\ KeptHref(e.url)
                         /\ _same_domain(StartUrl, e.url)
                         /\ e.url \notin visited)

\* one turn of the while loop: popleft, the visited test, _fetch_html, the
\* CrawledPage, and the parse of a page that came with HTML
CrawlPage ==
    /\ cPc = "loop"
    /\ LoopRuns(cQueue, cPages, cMax)
    /\ IF Head(cQueue).url \in cVisited
       THEN /\ cQueue' = Tail(cQueue)
            /\ UNCHANGED <<cVisited, cPages, cLinks, cImages>>
       ELSE /\ cVisited' = cVisited \cup {Head(cQueue).url}
            /\ cPages' = Append(cPages,
                   CrawledPage(Head(cQueue).url,
                               _fetch_html(cSite, Head(cQueue).url).status,
                               Head(cQueue).depth))
            /\ IF ~_fetch_html(cSite, Head(cQueue).url).html
                  \/ _fetch_html(cSite, Head(cQueue).url).status < 0
               THEN /\ cQueue' = Tail(cQueue)
                    /\ UNCHANGED <<cLinks, cImages>>
               ELSE /\ cLinks' = cLinks \o LinksOf(cSite, Head(cQueue).url)
                    /\ cQueue' = Tail(cQueue) \o
                           Enqueued(cSite, Head(cQueue).url, Head(cQueue).depth,
                                    cVisited')
                    /\ cImages' = cImages \o FoundOn(Images(cSite, Head(cQueue).url),
                                                     Head(cQueue).url)
    /\ UNCHANGED <<cSite, cMax, cPc, cProbed, cBroken, cMissing>>
    /\ UNCHANGED <<guardVars, scoreVars, derivedVars, verdictVars, exploreVars,
                   sessionVars, managerVars, rateVars, fanVars, frontierVars, interactVars,
                   reportVars, accessVars, runVars, wsVars>>

\* unique_links = list({lnk for lnk, _ in all_links})
Unique(found) == {found[j][1] : j \in 1..Len(found)}

\* the links whose status makes a BrokenLink: -1, -2 or >= 400
BrokenAmong(site, links) ==
    {l \in links : _check_link_status(site, l) < 0 \/ _check_link_status(site, l) >= 400}

\* `len(crawled_pages) == 1 and crawled_pages[0].status_code is not None and
\* crawled_pages[0].status_code < 0`
MainPageUnreachable(pages) ==
    Len(pages) = 1 /\ pages[1].status_code < 0

\* c_status / img_status: SKIP, or PASS / WARNING / FAIL by the number found
FindingStatus(pages, found, warn) ==
    IF MainPageUnreachable(pages) THEN "skip"
    ELSE IF found = 0 THEN "pass"
    ELSE IF found <= warn THEN "warning" ELSE "fail"

\* findings[:50]
Capped(findings) ==
    IF Cardinality(findings) <= FindingsCap THEN {findings}
    ELSE {F \in SUBSET findings : Cardinality(F) = FindingsCap}

BrokenLinksCheck(pages, total, found, listed) ==
    [status |-> FindingStatus(pages, found, 3), total_links |-> total,
     broken_count |-> found, broken_links |-> listed]

MissingImagesCheck(pages, total, found, listed) ==
    [status |-> FindingStatus(pages, found, 2), total_images |-> total,
     missing_count |-> found, missing_images |-> listed]

\* the gather over check_one_link and the BrokenLinksCheck built from it
CheckLinks ==
    /\ cPc = "loop"
    /\ ~LoopRuns(cQueue, cPages, cMax)
    /\ cProbed' = cProbed \cup Unique(cLinks)
    /\ \E listed \in Capped(BrokenAmong(cSite, Unique(cLinks))) :
         cBroken' = BrokenLinksCheck(cPages, Cardinality(Unique(cLinks)),
                                     Cardinality(BrokenAmong(cSite, Unique(cLinks))),
                                     listed)
    /\ cPc' = "images"
    /\ UNCHANGED <<cSite, cMax, cQueue, cVisited, cPages, cLinks, cImages, cMissing>>
    /\ UNCHANGED <<guardVars, scoreVars, derivedVars, verdictVars, exploreVars,
                   sessionVars, managerVars, rateVars, fanVars, frontierVars, interactVars,
                   reportVars, accessVars, runVars, wsVars>>

\* the gather over check_one_image and the MissingImagesCheck built from it
CheckImages ==
    /\ cPc = "images"
    /\ cProbed' = cProbed \cup Unique(cImages)
    /\ \E listed \in Capped(BrokenAmong(cSite, Unique(cImages))) :
         cMissing' = MissingImagesCheck(cPages, Cardinality(Unique(cImages)),
                                        Cardinality(BrokenAmong(cSite, Unique(cImages))),
                                        listed)
    /\ cPc' = "done"
    /\ UNCHANGED <<cSite, cMax, cQueue, cVisited, cPages, cLinks, cImages, cBroken>>
    /\ UNCHANGED <<guardVars, scoreVars, derivedVars, verdictVars, exploreVars,
                   sessionVars, managerVars, rateVars, fanVars, frontierVars, interactVars,
                   reportVars, accessVars, runVars, wsVars>>

(***************************************************************************)
(* playwright_runner.py: the verdict _async_run_login_test reaches after   *)
(* the login form has been submitted.  A URL and a page text are sequences *)
(* of tokens, as above.                                                    *)
(***************************************************************************)
SiteOrigin == "https://site.example"
LoginUrls ==
    { <<SiteOrigin, "/", "login">>,
      <<SiteOrigin, "/", "login", "/">>,
      <<SiteOrigin, "/", "login", "?", "next", "=", "app">> }
LandingUrls ==
    LoginUrls \cup
    { <<SiteOrigin, "/", "Dashboard">>,
      <<SiteOrigin, "/", "dashboard", "/">>,
      <<SiteOrigin, "/", "app">>,
      <<SiteOrigin, "/", "login", "?", "error", "=", "1">>,
      <<SiteOrigin, "/", "login", "?", "next", "=", "dashboard">> }
BodyTexts ==
    { <<>>,
      <<"Invalid", " ", "password">>,
      <<"Welcome", " ", "back">>,
      <<"please", " ", "sign", " ", "in">>,
      <<"incorrect", ".", " ", "Welcome">>,
      <<"sign", " ", "out">>,
      <<"login", " ", "failed">>,
      <<"try", " ", "again">> }
Indicators == {"none", "found", "missing"}

dashboard_keywords ==
    { <<"dashboard">>, <<"home">>, <<"profile">>, <<"account">>, <<"welcome">>,
      <<"logout">>, <<"sign", " ", "out">> }
error_keywords ==
    { <<"invalid", " ", "email">>, <<"invalid", " ", "password">>, <<"incorrect">>,
      <<"wrong", " ", "password">>, <<"unauthorized">>, <<"login", " ", "failed">>,
      <<"doesn't", " ", "match">> }

\* s.split("?")[0]
BeforeQuery(s) ==
    IF \E j \in 1..Len(s) : s[j] = "?"
    THEN SubSeq(s, 1, (CHOOSE j \in 1..Len(s) :
                          s[j] = "?" /\ \A k \in 1..(j - 1) : s[k] # "?") - 1)
    ELSE s

\* s.rstrip("/")
RECURSIVE RStripSlash(_)
RStripSlash(s) ==
    IF s # <<>> /\ s[Len(s)] = "/" THEN RStripSlash(SubSeq(s, 1, Len(s) - 1)) ELSE s

has_dashboard(current_url, body_text) ==
    \E kw \in dashboard_keywords :
        Contains(Lower(current_url), kw) \/ Contains(body_text, kw)
has_error(body_text) ==
    \E kw \in error_keywords : Contains(body_text, kw)
\* redirected = (base_current != base_target)
redirectedExact(current_url, target_login) == current_url # target_login
redirected(current_url, target_login) ==
    RStripSlash(BeforeQuery(current_url)) # RStripSlash(BeforeQuery(target_login))

Verdict(success, message) == [done |-> TRUE, success |-> success, message |-> message]
VerdictPending == [done |-> FALSE, success |-> FALSE, message |-> ""]

\* the chain with the keyword test ahead of the error test
JudgeByPageKeywordFirst(isRedirected, hasError, hasDashboard) ==
    IF isRedirected /\ ~hasError THEN Verdict(TRUE, "redirected")
    ELSE IF hasDashboard THEN Verdict(TRUE, "dashboard keywords visible")
    ELSE IF hasError THEN Verdict(FALSE, "error message detected on page")
    ELSE Verdict(FALSE, "result unclear")

\* the if / elif chain over redirected, has_error and has_dashboard
JudgeByPage(isRedirected, hasError, hasDashboard) ==
    IF isRedirected /\ ~hasError THEN Verdict(TRUE, "redirected")
    ELSE IF hasError THEN Verdict(FALSE, "error message detected on page")
    ELSE IF hasDashboard THEN Verdict(TRUE, "dashboard keywords visible")
    ELSE IF isRedirected THEN Verdict(TRUE, "redirected")
    ELSE Verdict(FALSE, "result unclear")

\* the indicator branch without the fallback on page.url
JudgeByIndicatorOnly(found, current_url, target_login) ==
    IF found THEN Verdict(TRUE, "success indicator found")
    ELSE Verdict(FALSE, "success indicator not found and URL unchanged")

\* `if success_indicator:` wait_for_selector, else the page.url comparison
JudgeByIndicator(found, current_url, target_login) ==
    IF found THEN Verdict(TRUE, "success indicator found")
    ELSE IF current_url # target_login THEN Verdict(TRUE, "redirected")
    ELSE Verdict(FALSE, "success indicator not found and URL unchanged")

\* "Verify login outcome": body_text is the lower-cased text of the page
JudgeLogin ==
    /\ lOut = VerdictPending
    /\ lOut' = IF lIndicator # "none"
               THEN JudgeByIndicator(lIndicator = "found", lCurrent, lTarget)
               ELSE JudgeByPage(redirected(lCurrent, lTarget),
                                has_error(Lower(lBody)),
                                has_dashboard(lCurrent, Lower(lBody)))
    /\ UNCHANGED <<lTarget, lCurrent, lBody, lIndicator>>
    /\ UNCHANGED <<guardVars, scoreVars, derivedVars, crawlVars, exploreVars,
                   sessionVars, managerVars, rateVars, fanVars, frontierVars, interactVars,
                   reportVars, accessVars, runVars, wsVars>>

(***************************************************************************)
(* playwright_runner.py: _test_post_login_ui on one page, from the button  *)
(* scan to the return.  The navigation-link stage and the pages scanned    *)
(* before this one show only as the actions already in the list.  A label  *)
(* is a sequence of tokens, each with its number of characters.            *)
(***************************************************************************)
Filler58 == "lorem ipsum (58 characters)"
Filler70 == "lorem ipsum (70 characters)"
CutToken == "(cut)"

\* len(tok)
CharLen(tok) ==
    CASE tok = Filler58 -> 58
      [] tok = Filler70 -> 70
      [] tok \in {" ", "x"} -> 1
      [] tok = "out" -> 3
      [] tok \in {"Save", "Sign", "Send"} -> 4
      [] tok \in {"Delete", "Remove", "Button"} -> 6
      [] OTHER -> 7

RECURSIVE TextLen(_)
TextLen(text) == IF text = <<>> THEN 0 ELSE CharLen(Head(text)) + TextLen(Tail(text))

\* text[:room]: the tokens that fit, and what is left of the one that does not
RECURSIVE Truncate(_, _)
Truncate(text, room) ==
    IF text = <<>> \/ room <= 0 THEN <<>>
    ELSE IF CharLen(Head(text)) <= room
         THEN <<Head(text)>> \o Truncate(Tail(text), room - CharLen(Head(text)))
         ELSE <<CutToken>>

SKIP_KEYWORDS ==
    { <<"delete">>, <<"remove">>, <<"logout">>, <<"log", " ", "out">>,
      <<"sign", " ", "out">>, <<"signout">>, <<"deactivate">>,
      <<"cancel", " ", "account">>, <<"unsubscribe">>, <<"reset">>,
      <<"clear", " ", "all">>, <<"terminate">>, <<"destroy">>, <<"drop">>,
      <<"purge">>, <<"ban">>, <<"kick">> }

BUTTON_SELECTORS ==
    << "button", "[role='button']", "input[type='button']", "input[type='submit']",
       "a.btn", "a.button", "[class*='btn']", "[class*='button']",
       "[class*='Button']" >>

\* any(kw in label_lower for kw in SKIP_KEYWORDS)
Destructive(label_lower) == \E kw \in SKIP_KEYWORDS : Contains(label_lower, kw)

\* ---- the buttons of the page
Button(visible, enabled, text, aria, sels, submits) ==
    [visible |-> visible, enabled |-> enabled, text |-> text, aria |-> aria,
     sels |-> sels, submits |-> submits]

ButtonTexts ==
    { <<"Delete", " ", "Account">>,
      <<Filler58, " ", "Delete", " ", "Account">>,
      <<Filler70, " ", "Delete", " ", "Account">>,
      <<"Sign", " ", "out">>,
      <<"Save">>,
      <<"x">>,
      <<>> }
AriaLabels == { <<>>, <<"Remove">> }
SelectorSets ==
    { {"button"}, {"input[type='submit']"}, {"button", "[class*='btn']"} }

\* the buttons a page may hold; `submits` marks the submit control of a form
Buttons ==
    { b \in [visible : BOOLEAN, enabled : BOOLEAN, text : ButtonTexts,
             aria : AriaLabels, sels : SelectorSets, submits : BOOLEAN] :
        /\ b.aria # <<>> => b.text = <<>>
        /\ b.submits => b.sels # {"button", "[class*='btn']"} }
SendButton == Button(TRUE, TRUE, <<"Send">>, <<>>, {"input[type='submit']"}, TRUE)

UIActionResult(type, label, status) ==
    [action_type |-> type, label |-> label, status |-> status]
PriorAction == UIActionResult("nav_link", <<"Home">>, "pass")
PriorActions(n) == [j \in 1..n |-> PriorAction]

\* page.locator(sel): the buttons of the page the selector matches, in order
Located(buttons, sel) ==
    SelectSeq([j \in 1..Len(buttons) |-> j], LAMBDA j : sel \in buttons[j].sels)

\* inner_text().strip()[:60], or the aria-label / "Unnamed Button" cut alike
LabelOf(b) ==
    IF Truncate(b.text, LabelCap) # <<>> THEN Truncate(b.text, LabelCap)
    ELSE IF b.aria # <<>> THEN Truncate(b.aria, LabelCap)
    ELSE <<"Unnamed", " ", "Button">>

\* label_lower = label.lower() and the keyword test on it
DestructiveLabel(label) == Destructive(Lower(label))

\* a button the loop passes over: not visible, not enabled, label too short
PassedOver(b) == ~b.visible \/ ~b.enabled \/ TextLen(LabelOf(b)) < 2

\* position of the scan: the button under locator.nth(i)
AtButton ==
    /\ ePc = "buttons" /\ eSel <= Len(BUTTON_SELECTORS)
    /\ eIdx <= Len(Located(eButtons, BUTTON_SELECTORS[eSel]))
    /\ eIdx <= LocatorCap
CurIndex == Located(eButtons, BUTTON_SELECTORS[eSel])[eIdx]
Cur == eButtons[CurIndex]

exploreRest == <<guardVars, scoreVars, derivedVars, crawlVars, verdictVars, sessionVars,
                 managerVars, rateVars, fanVars, frontierVars, interactVars,
                 reportVars, accessVars, runVars, wsVars>>

\* `for sel in BUTTON_SELECTORS`: the locator of a selector is exhausted
NextSelector ==
    /\ ePc = "buttons" /\ eSel <= Len(BUTTON_SELECTORS)
    /\ ~AtButton
    /\ eSel' = eSel + 1 /\ eIdx' = 1
    /\ UNCHANGED <<eButtons, eForms, eSeen, eActions, eClicked, eSubmits, ePc, eReturned>>
    /\ UNCHANGED exploreRest

\* a button that is passed over, or skipped as destructive, or seen before
SkipButton ==
    /\ AtButton
    /\ \/ /\ PassedOver(Cur)
          /\ UNCHANGED eActions
       \/ /\ ~PassedOver(Cur)
          /\ DestructiveLabel(LabelOf(Cur))
          /\ eActions' = Append(eActions, UIActionResult("button", LabelOf(Cur), "skip"))
       \/ /\ ~PassedOver(Cur)
          /\ ~DestructiveLabel(LabelOf(Cur))
          /\ Lower(LabelOf(Cur)) \in eSeen
          /\ UNCHANGED eActions
    /\ eIdx' = eIdx + 1
    /\ UNCHANGED <<eButtons, eForms, eSel, eSeen, eClicked, eSubmits, ePc, eReturned>>
    /\ UNCHANGED exploreRest

\* btn.click(timeout=3000, force=True): it returns, or it returns and the goto back to
\* current_url raises, or it raises
ClickButton ==
    /\ AtButton
    /\ ~PassedOver(Cur)
    /\ ~DestructiveLabel(LabelOf(Cur))
    /\ Lower(LabelOf(Cur)) \notin eSeen
    /\ eSeen' = eSeen \cup {Lower(LabelOf(Cur))}
    /\ \/ /\ eClicked' = Append(eClicked, CurIndex)
          /\ eSubmits' = eSubmits + (IF Cur.submits THEN 1 ELSE 0)
          /\ eActions' = Append(eActions, UIActionResult("button", LabelOf(Cur), "pass"))
       \/ /\ eClicked' = Append(eClicked, CurIndex)
          /\ eSubmits' = eSubmits + (IF Cur.submits THEN 1 ELSE 0)
          /\ eActions' = Append(Append(eActions,
                                      UIActionResult("button", LabelOf(Cur), "pass")),
                               UIActionResult("button", LabelOf(Cur), "fail"))
       \/ /\ eActions' = Append(eActions, UIActionResult("button", LabelOf(Cur), "fail"))
          /\ UNCHANGED <<eClicked, eSubmits>>
    /\ eIdx' = eIdx + 1
    /\ UNCHANGED <<eButtons, eForms, eSel, ePc, eReturned>>
    /\ UNCHANGED exploreRest

\* the button scan is over
ButtonsDone ==
    /\ ePc = "buttons" /\ eSel > Len(BUTTON_SELECTORS)
    /\ ePc' = "forms"
    /\ UNCHANGED <<eButtons, eForms, eSel, eIdx, eSeen, eActions, eClicked, eSubmits,
                   eReturned>>
    /\ UNCHANGED exploreRest

\* "3. Forms": one action per form, for the first five; nothing is submitted
FormActions(n) ==
    [j \in 1..(IF n <= FormCap THEN n ELSE FormCap) |->
        UIActionResult("form", <<"Form">>, "pass")]
CountForms ==
    /\ ePc = "forms"
    /\ eActions' = eActions \o FormActions(eForms)
    /\ ePc' = "summary"
    /\ UNCHANGED <<eButtons, eForms, eSel, eIdx, eSeen, eClicked, eSubmits, eReturned>>
    /\ UNCHANGED exploreRest

\* return PostLoginCheck(..., actions=actions[:50], ...)
Returned(actions) ==
    SubSeq(actions, 1, IF Len(actions) <= ActionCap THEN Len(actions) ELSE ActionCap)
ReturnCheck ==
    /\ ePc = "summary"
    /\ eReturned' = Returned(eActions)
    /\ ePc' = "done"
    /\ UNCHANGED <<eButtons, eForms, eSel, eIdx, eSeen, eActions, eClicked, eSubmits>>
    /\ UNCHANGED exploreRest

(***************************************************************************)
(* playwright_runner.py: the browser session of _async_capture_js_errors   *)
(* and of _async_run_login_test, and test_router.py: the variables of the  *)
(* login stage that hold the password.  A browser or a context is a        *)
(* number, 0 stands for None; the calls follow one another.                *)
(***************************************************************************)
Plaintext == "hunter2"
\* Fernet(key).encrypt(plain): a token that is not the plain value
Ciphertext(plain) == IF plain = "hunter2" THEN "gAAAAB(token of hunter2)" ELSE "gAAAAB(token)"
Unbound == "(unbound)"

\* crypto.py: without a key the development fallback returns the plain value
encrypt_credential(plain, keyed) == IF keyed THEN Ciphertext(plain) ELSE plain

\* crypto.py: f.decrypt, InvalidToken becomes ValueError; without a key the value itself
decrypt_credential(value, keyed) ==
    IF ~keyed THEN [raised |-> FALSE, value |-> value]
    ELSE IF value = Ciphertext(Plaintext) THEN [raised |-> FALSE, value |-> Plaintext]
    ELSE [raised |-> TRUE, value |-> Unbound]

sessionRest == <<guardVars, scoreVars, derivedVars, crawlVars, verdictVars, exploreVars,
                 managerVars, rateVars, fanVars, frontierVars, interactVars,
                 reportVars, accessVars, runVars, wsVars>>

\* a browser or context nobody has held yet
FreshId == Cardinality({ u[1] : u \in nUsedBy }) + 1

\* `if username and enc_pw`: pw = decrypt_credential(enc_pw), before the try
LoginStageBegin ==
    /\ nStage \in {"idle", "ended"} /\ nPc \in {"idle", "returned", "raised"}
    /\ nCalls < MaxCalls
    /\ IF decrypt_credential(nEncPw, nKeyed).raised
       THEN nStage' = "ended" /\ UNCHANGED nPw
       ELSE nStage' = "call" /\ nPw' = decrypt_credential(nEncPw, nKeyed).value
    /\ nPc' = "idle"
    /\ UNCHANGED <<nKeyed, nEncPw, nFn, nPassword, nBrowser, nContext, nOpen, nOwner,
                   nUsedBy, nCalls, nExc>>
    /\ UNCHANGED sessionRest

\* the first lines of either function: browser = None, context = None
Enter(fn, password) ==
    /\ nFn' = fn /\ nPassword' = password
    /\ nBrowser' = 0 /\ nContext' = 0 /\ nExc' = FALSE
    /\ nCalls' = nCalls + 1
    /\ nPc' = "start"
    /\ UNCHANGED <<nKeyed, nEncPw, nPw, nOpen, nOwner, nUsedBy>>
    /\ UNCHANGED sessionRest

\* await run_login_test(url, username, pw)
run_login_test ==
    /\ nStage = "call"
    /\ nStage' = "agent"
    /\ Enter("login", nPw)

\* capture_js_errors(url), outside a login stage
capture_js_errors ==
    /\ nStage \in {"idle", "ended"} /\ nPc \in {"idle", "returned", "raised"}
    /\ nCalls < MaxCalls
    /\ UNCHANGED nStage
    /\ Enter("js", Unbound)

\* an exception at `step`: the login agent has `except Exception`, the capture
\* catches only what page.goto and the UI test raise
Caught(fn, step) == fn = "login" \/ step = "work"

\* the way to the finally block after an exception at `step`
Raises(step) ==
    /\ nExc' = ~Caught(nFn, step)
    /\ nPc' = "finally"

\* async with async_playwright() as p: entering it may raise, before the try
StartPlaywright ==
    /\ nPc = "start"
    /\ \/ nPc' = "launch" /\ UNCHANGED nPassword
       \/ nPc' = "raised" /\ nPassword' = Unbound
    /\ UNCHANGED <<nKeyed, nEncPw, nPw, nStage, nFn, nBrowser, nContext, nOpen, nOwner,
                   nUsedBy, nCalls, nExc>>
    /\ UNCHANGED sessionRest

\* browser = await p.chromium.launch(headless=True)
Launch ==
    /\ nPc = "launch"
    /\ \/ /\ nBrowser' = FreshId
          /\ nOpen' = nOpen \cup {FreshId}
          /\ nUsedBy' = nUsedBy \cup {<<FreshId, nCalls>>}
          /\ nPc' = "context"
          /\ UNCHANGED nExc
       \/ /\ Raises("launch")
          /\ UNCHANGED <<nBrowser, nOpen, nUsedBy>>
    /\ UNCHANGED <<nKeyed, nEncPw, nPw, nStage, nFn, nPassword, nContext, nOwner, nCalls>>
    /\ UNCHANGED sessionRest

\* context = await browser.new_context(...)
NewContext ==
    /\ nPc = "context"
    /\ \/ /\ nContext' = FreshId
          /\ nOpen' = nOpen \cup {FreshId}
          /\ nOwner' = nOwner \cup {<<FreshId, nBrowser>>}
          /\ nUsedBy' = nUsedBy \cup {<<FreshId, nCalls>>}
          /\ nPc' = "page"
          /\ UNCHANGED nExc
       \/ /\ Raises("context")
          /\ UNCHANGED <<nContext, nOpen, nOwner, nUsedBy>>
    /\ UNCHANGED <<nKeyed, nEncPw, nPw, nStage, nFn, nPassword, nBrowser, nCalls>>
    /\ UNCHANGED sessionRest

\* page = await context.new_page()
NewPage ==
    /\ nPc = "page"
    /\ \/ nPc' = "work" /\ UNCHANGED nExc
       \/ Raises("page")
    /\ UNCHANGED <<nKeyed, nEncPw, nPw, nStage, nFn, nPassword, nBrowser, nContext, nOpen,
                   nOwner, nUsedBy, nCalls>>
    /\ UNCHANGED sessionRest

\* what is open once the browser process is gone, or after browser.close()
AfterBrowserLeak(open, owner, browser) == open
AfterBrowserClose(open, owner, browser) ==
    { r \in open : r # browser /\ <<r, browser>> \notin owner }

\* goto, fill, click, the verdict and the UI test: the function goes on to its
\* finally block whether the login succeeded, was judged failed, a step raised
\* with the browser alive, or the browser process died
Work ==
    /\ nPc = "work"
    /\ \/ nPc' = "finally" /\ UNCHANGED <<nExc, nOpen>>
       \/ Raises("work") /\ UNCHANGED nOpen
       \/ Raises("work") /\ nOpen' = AfterBrowserClose(nOpen, nOwner, nBrowser)
    /\ UNCHANGED <<nKeyed, nEncPw, nPw, nStage, nFn, nPassword, nBrowser, nContext,
                   nOwner, nUsedBy, nCalls>>
    /\ UNCHANGED sessionRest

\* finally: `del password` (login agent only)
FinallyBegin ==
    /\ nPc = "finally"
    /\ nPassword' = IF nFn = "login" THEN Unbound ELSE nPassword
    /\ nPc' = "close_ctx"
    /\ UNCHANGED <<nKeyed, nEncPw, nPw, nStage, nFn, nBrowser, nContext, nOpen, nOwner,
                   nUsedBy, nCalls, nExc>>
    /\ UNCHANGED sessionRest

\* if context is not None: clear_cookies(); close() -- one try for both, so a
\* clear_cookies that raises leaves the close out
CloseContext ==
    /\ nPc = "close_ctx"
    /\ \/ nContext # 0 /\ nOpen' = nOpen \ {nContext}
       \/ nContext # 0 /\ UNCHANGED nOpen
       \/ nContext = 0 /\ UNCHANGED nOpen
    /\ nPc' = "close_browser"
    /\ UNCHANGED <<nKeyed, nEncPw, nPw, nStage, nFn, nPassword, nBrowser, nContext,
                   nOwner, nUsedBy, nCalls, nExc>>
    /\ UNCHANGED sessionRest

\* if browser is not None: browser.close(), which closes its contexts too; then
\* the function returns, or the exception that was not caught leaves it
CloseBrowser ==
    /\ nPc = "close_browser"
    /\ nOpen' = IF nBrowser # 0 THEN AfterBrowserClose(nOpen, nOwner, nBrowser) ELSE nOpen
    /\ nPc' = IF nExc THEN "raised" ELSE "returned"
    /\ UNCHANGED <<nKeyed, nEncPw, nPw, nStage, nFn, nPassword, nBrowser, nContext,
                   nOwner, nUsedBy, nCalls, nExc>>
    /\ UNCHANGED sessionRest

\* the _step calls after the agent returned, then `finally: scrub(pw); del pw`
\* (scrub deletes its own parameter only; `del pw` unbinds the variable)
LoginStageEnd ==
    /\ nStage = "agent" /\ nPc \in {"returned", "raised"}
    /\ nPw' = Unbound
    /\ nStage' = "ended"
    /\ UNCHANGED <<nKeyed, nEncPw, nFn, nPc, nPassword, nBrowser, nContext, nOpen, nOwner,
                   nUsedBy, nCalls, nExc>>
    /\ UNCHANGED sessionRest

(***************************************************************************)
(* test_router.py: ConnectionManager with several test ids and sockets.    *)
(* broadcast awaits one send_text per socket, so the connect and the       *)
(* disconnect of the websocket endpoint may run between two sends.         *)
(***************************************************************************)
Tids == {"t1", "t2"}
ManagerSockets == {"a", "b", "c"}

RECURSIVE RemoveFirst(_, _)
\* list.remove(x), for a list that may not hold x
RemoveFirst(seq, x) ==
    IF seq = <<>> THEN <<>>
    ELSE IF Head(seq) = x THEN Tail(seq)
    ELSE <<Head(seq)>> \o RemoveFirst(Tail(seq), x)

\* disconnect(tid, ws): `if ws in self._c.get(tid, []): self._c[tid].remove(ws)`
disconnectNever(reg, tid, ws) == reg
disconnect(reg, tid, ws) == [reg EXCEPT ![tid] = RemoveFirst(@, ws)]

RECURSIVE PruneDead(_, _, _)
\* for ws in dead: self.disconnect(tid, ws)
PruneDead(reg, tid, dead) ==
    IF dead = <<>> THEN reg
    ELSE PruneDead(disconnect(reg, tid, Head(dead)), tid, Tail(dead))

\* the endpoint's coroutine can run: broadcast is not running, or it is
\* suspended in the send_text to the head of the list
EndpointMayRun == mPc \in {"idle", "returned"} \/ mTodo # <<>>

managerRest == <<guardVars, scoreVars, derivedVars, crawlVars, verdictVars, exploreVars,
                 sessionVars, rateVars, fanVars, frontierVars, interactVars,
                 reportVars, accessVars, runVars, wsVars>>

\* connect(tid, ws): await ws.accept(), which may raise, then the append
manager_connect ==
    /\ EndpointMayRun
    /\ \E tid \in Tids : \E ws \in ManagerSockets :
        /\ mSock[ws] = "new"
        /\ \/ /\ mReg' = [mReg EXCEPT ![tid] = Append(@, ws)]
              /\ mSock' = [mSock EXCEPT ![ws] = "open"]
           \/ /\ mSock' = [mSock EXCEPT ![ws] = "gone"]
              /\ UNCHANGED mReg
    /\ UNCHANGED <<mPc, mTid, mAtCall, mTodo, mDead, mSent, mRet>>
    /\ UNCHANGED managerRest

\* ws_endpoint on WebSocketDisconnect: manager.disconnect(test_id, websocket)
manager_disconnect ==
    /\ EndpointMayRun
    /\ \E tid \in Tids : \E ws \in ManagerSockets :
        /\ mSock[ws] = "open" /\ ws \in Range(mReg[tid])
        /\ mReg' = disconnect(mReg, tid, ws)
        /\ mSock' = [mSock EXCEPT ![ws] = "gone"]
    /\ UNCHANGED <<mPc, mTid, mAtCall, mTodo, mDead, mSent, mRet>>
    /\ UNCHANGED managerRest

\* broadcast(tid, data): dead = []; the loop runs over list(self._c.get(tid, []))
BroadcastBegin ==
    /\ mPc \in {"idle", "returned"}
    /\ \E tid \in Tids :
        /\ mTid' = tid
        /\ mAtCall' = mReg[tid]
        /\ mTodo' = mReg[tid]
    /\ mDead' = <<>> /\ mSent' = <<>>
    /\ mPc' = "sending"
    /\ UNCHANGED <<mReg, mSock, mRet>>
    /\ UNCHANGED managerRest

\* await ws.send_text(json.dumps(data, default=str)); except Exception: dead.append(ws)
BroadcastSend ==
    /\ mPc = "sending" /\ mTodo # <<>>
    /\ \/ /\ mSock[Head(mTodo)] = "open"
          /\ mSent' = Append(mSent, Head(mTodo))
          /\ UNCHANGED mDead
       \/ /\ mDead' = Append(mDead, Head(mTodo))
          /\ UNCHANGED mSent
    /\ mTodo' = Tail(mTodo)
    /\ UNCHANGED <<mReg, mSock, mPc, mTid, mAtCall, mRet>>
    /\ UNCHANGED managerRest

\* for ws in dead: self.disconnect(tid, ws); then broadcast returns
BroadcastPrune ==
    /\ mPc = "sending" /\ mTodo = <<>>
    /\ mReg' = PruneDead(mReg, mTid, mDead)
    /\ mRet' = [reg |-> PruneDead(mReg, mTid, mDead), sock |-> mSock]
    /\ mPc' = "returned"
    /\ UNCHANGED <<mSock, mTid, mAtCall, mTodo, mDead, mSent>>
    /\ UNCHANGED managerRest

(***************************************************************************)
(* middleware/rate_limit.py: RateLimitMiddleware.dispatch.  The clock is   *)
(* time.monotonic() in whole seconds.                                      *)
(***************************************************************************)
LIMITED == {"/run", "/feature-test/run"}

\* the requests: X-Forwarded-For as the list of its comma-separated entries,
\* host as request.client.host, "" when request.client is None
Request(method, path, fwd, host) ==
    [method |-> method, path |-> path, fwd |-> fwd, host |-> host]
Requests ==
    { Request("POST", "/run", <<>>, "1.1.1.1"),
      Request("POST", "/run", <<"9.9.9.9", "1.1.1.1">>, "1.1.1.1"),
      Request("POST", "/run", <<>>, ""),
      Request("GET", "/run", <<>>, "1.1.1.1"),
      Request("POST", "/test/t1", <<>>, "1.1.1.1") }
IpKeys == {"9.9.9.9", "1.1.1.1", "unknown"}

\* _ip(request)
_ip(request) ==
    IF request.fwd # <<>> THEN Head(request.fwd)
    ELSE IF request.host # "" THEN request.host
    ELSE "unknown"

\* request.method == "POST" and request.url.path in LIMITED
IsLimited(request) == request.method = "POST" /\ request.path \in LIMITED

\* `now - q[0] > WINDOW`
StaleAtWindow(now, t) == now - t >= WINDOW
Stale(now, t) == now - t > WINDOW

RECURSIVE PopStale(_, _)
\* while q and now - q[0] > WINDOW: q.popleft()
PopStale(q, now) ==
    IF q # <<>> /\ Stale(now, Head(q)) THEN PopStale(Tail(q), now) ELSE q

Handled(request, now, out) ==
    [key |-> _ip(request), t |-> now, limited |-> IsLimited(request), out |-> out]

rateRest == <<guardVars, scoreVars, derivedVars, crawlVars, verdictVars, exploreVars,
              sessionVars, managerVars, fanVars, frontierVars, interactVars,
                 reportVars, accessVars, runVars, wsVars>>

\* time passes between two requests
Tick ==
    /\ rTicks < MaxTicks
    /\ \E d \in Deltas : rNow' = rNow + d
    /\ rTicks' = rTicks + 1
    /\ UNCHANGED <<rLog, rLimit, rHist>>
    /\ UNCHANGED rateRest

\* dispatch(request, call_next): 429, or the request is passed on
dispatch ==
    /\ Len(rHist) < MaxRequests
    /\ \E request \in Requests :
        IF IsLimited(request)
        THEN IF Len(PopStale(rLog[_ip(request)], rNow)) >= rLimit
             THEN /\ rLog' = [rLog EXCEPT ![_ip(request)] = PopStale(@, rNow)]
                  /\ rHist' = Append(rHist, Handled(request, rNow, "429"))
             ELSE /\ rLog' = [rLog EXCEPT ![_ip(request)] = Append(PopStale(@, rNow), rNow)]
                  /\ rHist' = Append(rHist, Handled(request, rNow, "passed"))
        ELSE /\ rHist' = Append(rHist, Handled(request, rNow, "passed"))
             /\ UNCHANGED rLog
    /\ UNCHANGED <<rNow, rTicks, rLimit>>
    /\ UNCHANGED rateRest

(***************************************************************************)
(* crawler.py: the integrity-checking phase of crawl_website.  Every       *)
(* unique link, then every unique image, is probed by a task of its own;   *)
(* all the tasks share one semaphore.                                      *)
(***************************************************************************)
\* sem = asyncio.Semaphore(10)
SemLimit == 10
\* the largest number of unique links or images of a sample crawl
MaxProbes == 12

\* Semaphore.acquire returns at once only while the value is positive
CanAcquireAlways(sem) == TRUE
CanAcquire(sem) == sem > 0

\* probes that hold the semaphore and await a response
InFlight == fHead + fGet

fanRest == <<guardVars, scoreVars, derivedVars, crawlVars, verdictVars, exploreVars,
             sessionVars, managerVars, rateVars, frontierVars, interactVars,
                 reportVars, accessVars, runVars, wsVars>>

\* check_one_link / check_one_image: `async with sem:` entered, the HEAD request is sent
ProbeAcquire ==
    /\ fPhase \in {"links", "images"}
    /\ fWaiting > 0
    /\ CanAcquire(fSem)
    /\ fWaiting' = fWaiting - 1
    /\ fSem' = fSem - 1
    /\ fHead' = fHead + 1
    /\ UNCHANGED <<fPhase, fLinks, fImages, fGet, fFallback>>
    /\ UNCHANGED fanRest

\* _check_link_status: the HEAD request answers or times out; the status is returned
\* and `async with sem` is left
HeadReturns ==
    /\ fHead > 0
    /\ fHead' = fHead - 1
    /\ fSem' = fSem + 1
    /\ UNCHANGED <<fPhase, fLinks, fImages, fWaiting, fGet, fFallback>>
    /\ UNCHANGED fanRest

\* _check_link_status: the HEAD request raises; the fallback GET is sent, still inside
\* `async with sem`
HeadRaises ==
    /\ fHead > 0
    /\ fHead' = fHead - 1
    /\ fGet' = fGet + 1
    /\ UNCHANGED <<fPhase, fLinks, fImages, fWaiting, fSem, fFallback>>
    /\ UNCHANGED fanRest

\* _check_link_status: the fallback GET answers or raises; `async with sem` is left
GetReturns ==
    /\ fGet > 0
    /\ fGet' = fGet - 1
    /\ fSem' = fSem + 1
    /\ fFallback' = fFallback + 1
    /\ UNCHANGED <<fPhase, fLinks, fImages, fWaiting, fHead>>
    /\ UNCHANGED fanRest

\* the gather over unique_links returns; the image probes are created and gathered
LinksGathered ==
    /\ fPhase = "links"
    /\ fWaiting = 0 /\ InFlight = 0
    /\ fPhase' = "images"
    /\ fWaiting' = fImages
    /\ UNCHANGED <<fLinks, fImages, fHead, fGet, fSem, fFallback>>
    /\ UNCHANGED fanRest

\* the gather over unique_images returns
ImagesGathered ==
    /\ fPhase = "images"
    /\ fWaiting = 0 /\ InFlight = 0
    /\ fPhase' = "done"
    /\ UNCHANGED <<fLinks, fImages, fWaiting, fHead, fGet, fSem, fFallback>>
    /\ UNCHANGED fanRest
(***************************************************************************)
(* crawler.py: the URLs crawl_website enqueues and fetches.  Here a URL    *)
(* keeps all that urlparse reads from it, the fragment included, and an    *)
(* href is the attribute as written in the page: a relative reference has  *)
(* no scheme and no netloc, a missing path is <<>>, a missing query is 0   *)
(* and a missing fragment is "".                                           *)
(***************************************************************************)
Ref(scheme, netloc, path, query, fragment) ==
    [scheme |-> scheme, netloc |-> netloc, path |-> path, query |-> query,
     fragment |-> fragment]

SitePort == <<"site", ".", "example", ":", "8443">>
OtherNetloc == <<"other", ".", "example">>

\* the start URLs of the sample crawls: plain, with a fragment, with a query
StartUrls ==
    { Ref("https", SiteNetloc, <<"/">>, 0, ""),
      Ref("https", SiteNetloc, <<"/">>, 0, "top"),
      Ref("https", SiteNetloc, <<"/">>, 1, "") }

\* the href attributes of the sample pages
HrefHome       == Ref("", <<>>, <<"/">>, 0, "")
HrefHomeTop    == Ref("", <<>>, <<"/">>, 0, "top")
HrefAbout      == Ref("", <<>>, <<"/", "about">>, 0, "")
HrefAboutTeam  == Ref("", <<>>, <<"/", "about">>, 0, "team")
HrefAboutPaged == Ref("", <<>>, <<"/", "about">>, 2, "")
HrefPaged      == Ref("", <<>>, <<>>, 2, "")
HrefFragment   == Ref("", <<>>, <<>>, 0, "top")
HrefSchemeless == Ref("", SiteNetloc, <<"/", "about">>, 0, "")
HrefInsecure   == Ref("http", SiteNetloc, <<"/", "about">>, 0, "")
HrefPort       == Ref("https", SitePort, <<"/">>, 0, "")
HrefExternal   == Ref("https", OtherNetloc, <<"/">>, 0, "")
HrefSms        == Ref("sms", <<>>, <<"123">>, 0, "")
HrefMailto     == Ref("mailto", <<>>, <<"team", "@", "site", ".", "example">>, 0, "")
HrefOauth      == Ref("https", <<"Accounts", ".", "google", ".", "com">>,
                      <<"/", "o", "/", "oauth2", "/", "auth">>, 0, "")
Hrefs == <<HrefHome, HrefHomeTop, HrefAbout, HrefAboutTeam, HrefAboutPaged, HrefPaged,
           HrefFragment, HrefSchemeless, HrefInsecure, HrefPort, HrefExternal, HrefSms,
           HrefMailto, HrefOauth>>
\* the largest number of different hrefs on the pages of a sample site
MaxAnchors == 2
\* the largest max_pages of a sample crawl
MaxFetch == 4

\* urljoin(base, href) for a base with a netloc and an href whose path, when it has
\* one, is absolute or opaque
urljoin(base, href) ==
    IF href.scheme # "" /\ (href.scheme # base.scheme \/ href.netloc # <<>>) THEN href
    ELSE IF href.netloc # <<>> THEN [href EXCEPT !.scheme = base.scheme]
    ELSE IF href.path = <<>>
         THEN Ref(base.scheme, base.netloc, base.path,
                  IF href.query = 0 THEN base.query ELSE href.query, href.fragment)
         ELSE Ref(base.scheme, base.netloc, href.path, href.query, href.fragment)

\* parsed._replace(fragment="").geturl()
StripFragment(u) == [u EXCEPT !.fragment = ""]

_normalize_url(base, href) == StripFragment(urljoin(base, href))

\* href.startswith(("mailto:", "tel:", "javascript:", "#"))
SkippedRef(href) ==
    \/ href.scheme \in {"mailto", "tel", "javascript"}
    \/ href.scheme = "" /\ href.netloc = <<>> /\ href.path = <<>> /\ href.query = 0
       /\ href.fragment # ""

\* the full_url of each href of the page that passes both `continue` tests
FullUrls(page, anchors) ==
    SelectSeq([j \in 1..Len(anchors) |->
                  IF SkippedRef(anchors[j]) THEN HrefFragment
                  ELSE _normalize_url(page, anchors[j])],
              LAMBDA full : full # HrefFragment /\ ~_is_oauth_url(full))

\* queue.append((full_url, depth + 1)) for the full URLs of the start URL's domain
\* that are not in visited
Frontier(start, fulls, depth, visited) ==
    SelectSeq(Deeper(fulls, depth),
              LAMBDA e : _same_domain(start, e.url) /\ e.url \notin visited)

\* session.get answers with a body for http and https URLs and raises for others
Fetchable(u) == u.scheme \in {"http", "https"}

frontierRest == <<guardVars, scoreVars, derivedVars, crawlVars, verdictVars, exploreVars,
                  sessionVars, managerVars, rateVars, fanVars, interactVars,
                 reportVars, accessVars, runVars, wsVars>>

\* one turn of the while loop: popleft, the visited test, _fetch_html, the
\* CrawledPage, and the anchors of a page that came with HTML
FetchPage ==
    /\ qPc = "loop"
    /\ LoopRuns(qQueue, qPages, qMax)
    /\ IF Head(qQueue).url \in qVisited
       THEN /\ qQueue' = Tail(qQueue)
            /\ UNCHANGED <<qVisited, qPages, qLinks>>
       ELSE /\ qVisited' = qVisited \cup {Head(qQueue).url}
            /\ qPages' = Append(qPages, Head(qQueue))
            /\ IF Fetchable(Head(qQueue).url)
               THEN /\ qLinks' = qLinks \o FullUrls(Head(qQueue).url, qAnchors)
                    /\ qQueue' = Tail(qQueue) \o
                           Frontier(qStart, FullUrls(Head(qQueue).url, qAnchors),
                                    Head(qQueue).depth, qVisited')
               ELSE /\ qQueue' = Tail(qQueue)
                    /\ UNCHANGED qLinks
    /\ UNCHANGED <<qStart, qMax, qAnchors, qPc>>
    /\ UNCHANGED frontierRest

\* the while loop ends: the recorded links go to the integrity probes
FrontierDone ==
    /\ qPc = "loop"
    /\ ~LoopRuns(qQueue, qPages, qMax)
    /\ qPc' = "probing"
    /\ UNCHANGED <<qStart, qMax, qAnchors, qQueue, qVisited, qPages, qLinks>>
    /\ UNCHANGED frontierRest
(***************************************************************************)
(* playwright_runner.py: _test_post_login_ui, the visit of each navigation *)
(* link and the click of each button with the return to the scanned page.  *)
(* Labels, selectors and the tests ahead of the click are in the button    *)
(* scan above; here a link or a button is its index.                       *)
(***************************************************************************)
\* the largest number of links and of buttons of a sample page
MaxElements == 2

Record(type, element, status) ==
    [action_type |-> type, element |-> element, status |-> status]

interactRest == <<guardVars, scoreVars, derivedVars, crawlVars, verdictVars, exploreVars,
                  sessionVars, managerVars, rateVars, fanVars, frontierVars, reportVars,
                  accessVars, runVars, wsVars>>

\* the except clause of a link visit or a click: the FAIL record, the tally, and the
\* goto back whose own failure is passed over
ExceptOnly(actions, type, element) == Append(actions, Record(type, element, "fail"))

\* page.goto(full_url) returns: the PASS record and the tally, then the goto back to
\* original_url, which returns or raises inside the same try
VisitLinkPasses ==
    /\ uPc = "links" /\ uIdx <= uLinks
    /\ nav_passed' = nav_passed + 1
    /\ \/ /\ uActions' = Append(uActions, Record("nav_link", uIdx, "pass"))
          /\ uHome' = TRUE
          /\ UNCHANGED nav_failed
       \/ /\ uActions' = ExceptOnly(Append(uActions, Record("nav_link", uIdx, "pass")),
                                    "nav_link", uIdx)
          /\ nav_failed' = nav_failed + 1
          /\ uHome' \in BOOLEAN
    /\ uIdx' = uIdx + 1
    /\ UNCHANGED <<uLinks, uButtons, uPc, btn_passed, btn_failed>>
    /\ UNCHANGED interactRest

\* page.goto(full_url) raises: the FAIL record and the tally, then the goto back
VisitLinkFails ==
    /\ uPc = "links" /\ uIdx <= uLinks
    /\ uActions' = ExceptOnly(uActions, "nav_link", uIdx)
    /\ nav_failed' = nav_failed + 1
    /\ uHome' \in BOOLEAN
    /\ uIdx' = uIdx + 1
    /\ UNCHANGED <<uLinks, uButtons, uPc, nav_passed, btn_passed, btn_failed>>
    /\ UNCHANGED interactRest

\* the link loop is over
LinksDone ==
    /\ uPc = "links" /\ uIdx > uLinks
    /\ uPc' = "scan" /\ uIdx' = 1
    /\ UNCHANGED <<uLinks, uButtons, uActions, nav_passed, nav_failed, btn_passed,
                   btn_failed, uHome>>
    /\ UNCHANGED interactRest

\* `if page.url != scan_url: await page.goto(scan_url, ...)`: when it raises the scan of
\* the page is given up
ScanBegin ==
    /\ uPc = "scan"
    /\ \/ uHome' = TRUE /\ uPc' = "buttons"
       \/ ~uHome /\ uHome' = FALSE /\ uPc' = "done"
    /\ UNCHANGED <<uLinks, uButtons, uIdx, uActions, nav_passed, nav_failed, btn_passed,
                   btn_failed>>
    /\ UNCHANGED interactRest

\* the page is not the scanned page any more: the button is not found there and is
\* passed over
ButtonGone ==
    /\ uPc = "buttons" /\ uIdx <= uButtons /\ ~uHome
    /\ uIdx' = uIdx + 1
    /\ UNCHANGED <<uLinks, uButtons, uPc, uActions, nav_passed, nav_failed, btn_passed,
                   btn_failed, uHome>>
    /\ UNCHANGED interactRest

\* btn.click returns: the PASS record and the tally; when the click navigated, the goto
\* back to current_url, which returns or raises inside the same try
ClickPasses ==
    /\ uPc = "buttons" /\ uIdx <= uButtons /\ uHome
    /\ btn_passed' = btn_passed + 1
    /\ \/ /\ uActions' = Append(uActions, Record("button", uIdx, "pass"))
          /\ uHome' = TRUE
          /\ UNCHANGED btn_failed
       \/ /\ uActions' = ExceptOnly(Append(uActions, Record("button", uIdx, "pass")),
                                    "button", uIdx)
          /\ btn_failed' = btn_failed + 1
          /\ uHome' \in BOOLEAN
    /\ uIdx' = uIdx + 1
    /\ UNCHANGED <<uLinks, uButtons, uPc, nav_passed, nav_failed>>
    /\ UNCHANGED interactRest

\* btn.click raises: the FAIL record and the tally, then the goto back
ClickFails ==
    /\ uPc = "buttons" /\ uIdx <= uButtons /\ uHome
    /\ uActions' = ExceptOnly(uActions, "button", uIdx)
    /\ btn_failed' = btn_failed + 1
    /\ uHome' \in BOOLEAN
    /\ uIdx' = uIdx + 1
    /\ UNCHANGED <<uLinks, uButtons, uPc, nav_passed, nav_failed, btn_passed>>
    /\ UNCHANGED interactRest

\* the button loop is over
ScanDone ==
    /\ uPc = "buttons" /\ uIdx > uButtons
    /\ uPc' = "done"
    /\ UNCHANGED <<uLinks, uButtons, uIdx, uActions, nav_passed, nav_failed, btn_passed,
                   btn_failed, uHome>>
    /\ UNCHANGED interactRest
(***************************************************************************)
(* report_generator.py: calculate_overall_score, and the scoring rules of  *)
(* tests/test_core.py: TestScoreCalculation._score.  A check is its status *)
(* and the one number the rules read from it: broken_count, error_count or *)
(* load_time_ms.  A check that is None, or a key that is missing, has the  *)
(* status "none".                                                          *)
(***************************************************************************)
Check(status, n) == [status |-> status, n |-> n]
Absent == Check("none", 0)
\* the largest broken_count and error_count of a sample result
MaxCount == 6

\* the sample results
ReportSamples(name) ==
    CASE name = "uptime" ->
            {Absent, Check("pass", 0), Check("warning", 0), Check("fail", 0)}
      [] name = "speed" ->
            {Check(s, load) : s \in {"pass", "warning", "fail"}, load \in {900, 3500, 6000}}
      [] name = "ssl" ->
            {Absent, Check("pass", 0), Check("warning", 0), Check("fail", 0),
             Check("skip", 0)}
      [] name = "broken_links" ->
            {Check("pass", 0), Check("warning", 3), Check("fail", 3),
             Check("fail", MaxCount), Check("skip", 0)}
      [] name = "mobile_responsiveness" ->
            {Check("pass", 0), Check("warning", 0), Check("fail", 0)}
      [] name = "missing_images" ->
            {Absent, Check("pass", 0), Check("fail", 0)}
      [] name = "js_errors" ->
            {Absent, Check("pass", 0), Check("warning", 2), Check("fail", MaxCount)}

weights ==
    [uptime |-> 30, speed |-> 20, ssl |-> 15, broken_links |-> 15,
     mobile_responsiveness |-> 10, missing_images |-> 5, js_errors |-> 5]

\* check_score(check, weight)
check_score(check, weight) ==
    IF check.status = "none" THEN weight
    ELSE IF check.status = "pass" THEN weight
    ELSE IF check.status = "warning" THEN weight \div 2
    ELSE IF check.status = "skip" THEN weight
    ELSE 0

Min(a, b) == IF a <= b THEN a ELSE b
Max(a, b) == IF a >= b THEN a ELSE b

\* calculate_overall_score(result)
calculate_overall_score(r) ==
    Min(100, Max(0,
        check_score(r["uptime"], weights["uptime"])
        + check_score(r["speed"], weights["speed"])
        + check_score(r["ssl"], weights["ssl"])
        + check_score(r["broken_links"], weights["broken_links"])
        + check_score(r["mobile_responsiveness"], weights["mobile_responsiveness"])
        + check_score(r["missing_images"], weights["missing_images"])
        + check_score(r["js_errors"], weights["js_errors"])))

\* the deductions of TestScoreCalculation._score, check by check
UptimeLoss(c) == IF c.status = "fail" THEN 30 ELSE IF c.status = "warning" THEN 10 ELSE 0
SpeedLoss(c) ==
    IF c.status = "fail" \/ c.n > 5000 THEN 20
    ELSE IF c.status = "warning" \/ c.n > 2000 THEN 10
    ELSE 0
SslLoss(c) == IF c.status = "fail" THEN 20 ELSE IF c.status = "warning" THEN 8 ELSE 0
BrokenLoss(c) == IF c.n > 5 THEN 15 ELSE IF c.n > 0 THEN 7 ELSE 0
JsLoss(c) == IF c.n > 5 THEN 10 ELSE IF c.n > 0 THEN 4 ELSE 0
MobileLoss(c) == IF c.status = "fail" THEN 5 ELSE 0

\* TestScoreCalculation._score(result_dict)
_score(r) ==
    Max(0, 100 - UptimeLoss(r["uptime"]) - SpeedLoss(r["speed"]) - SslLoss(r["ssl"])
               - BrokenLoss(r["broken_links"]) - JsLoss(r["js_errors"])
               - MobileLoss(r["mobile_responsiveness"]))

Unscored == [done |-> FALSE, score |-> 0]
ReturnedScore(n) == [done |-> TRUE, score |-> n]

reportRest == <<guardVars, scoreVars, derivedVars, crawlVars, verdictVars, exploreVars,
                sessionVars, managerVars, rateVars, fanVars, frontierVars, interactVars,
                accessVars, runVars, wsVars>>

\* the report generator scores the result
OverallScore ==
    /\ tOverall = Unscored /\ tChecks # <<>>
    /\ tOverall' = ReturnedScore(calculate_overall_score(tChecks))
    /\ UNCHANGED <<tChecks, tReference>>
    /\ UNCHANGED reportRest

\* the test suite scores the same result by its rules
ReferenceScore ==
    /\ tReference = Unscored /\ tChecks # <<>>
    /\ tReference' = ReturnedScore(_score(tChecks))
    /\ UNCHANGED <<tChecks, tOverall>>
    /\ UNCHANGED reportRest
(***************************************************************************)
(* test_router.py: fetch_result, remove_result and ws_endpoint on one      *)
(* stored run.  The caller of the two HTTP endpoints is current_user's     *)
(* `sub`; ws_endpoint takes no credentials, so its caller may be anyone.   *)
(***************************************************************************)
Owners == {"", "u1"}
Subs == {"u1", "u2"}
Callers == Subs \cup {"anonymous"}
\* the largest number of endpoint calls of a sample behaviour
MaxAccess == 3

Doc(user_id, status) == [user_id |-> user_id, status |-> status]
NoDoc == Doc("", "absent")

\* the answer of an endpoint; doc is the document delivered or deleted, if any
Answer(op, caller, code, doc) == [op |-> op, caller |-> caller, code |-> code, doc |-> doc]

\* `result.get("user_id") and result["user_id"] != current_user.get("sub")`
NotYoursToRead(doc, sub) == doc.user_id # "" /\ doc.user_id # sub
\* `result.get("user_id") != current_user.get("sub")`
NotYoursToDelete(doc, sub) == doc.user_id # sub

accessRest == <<guardVars, scoreVars, derivedVars, crawlVars, verdictVars, exploreVars,
                sessionVars, managerVars, rateVars, fanVars, frontierVars, interactVars,
                reportVars, runVars, wsVars>>

\* GET /test/{test_id}
fetch_result ==
    /\ Len(aLog) < MaxAccess
    /\ \E sub \in Subs :
          aLog' = Append(aLog,
              IF aDoc = NoDoc THEN Answer("fetch", sub, "404", NoDoc)
              ELSE IF NotYoursToRead(aDoc, sub) THEN Answer("fetch", sub, "403", NoDoc)
              ELSE Answer("fetch", sub, "200", aDoc))
    /\ UNCHANGED aDoc
    /\ UNCHANGED accessRest

\* DELETE /test/{test_id}
remove_result ==
    /\ Len(aLog) < MaxAccess
    /\ \E sub \in Subs :
          IF aDoc = NoDoc
          THEN /\ aLog' = Append(aLog, Answer("delete", sub, "404", NoDoc))
               /\ UNCHANGED aDoc
          ELSE IF NotYoursToDelete(aDoc, sub)
          THEN /\ aLog' = Append(aLog, Answer("delete", sub, "403", NoDoc))
               /\ UNCHANGED aDoc
          ELSE /\ aLog' = Append(aLog, Answer("delete", sub, "200", aDoc))
               /\ aDoc' = NoDoc
    /\ UNCHANGED accessRest

\* WS /test/{test_id}/ws up to the snapshot: manager.connect, get_result and, `if
\* existing`, send_text; the caller is not looked at
ws_endpoint ==
    /\ Len(aLog) < MaxAccess
    /\ \E caller \in Callers :
          aLog' = Append(aLog,
              IF aDoc = NoDoc
              THEN Answer("ws", caller, "listening", NoDoc)
              ELSE Answer("ws", caller, "snapshot", aDoc))
    /\ UNCHANGED aDoc
    /\ UNCHANGED accessRest
(***************************************************************************)
(* Specifications.                                                         *)
(***************************************************************************)
GuardOff == gUrl = [parses |-> FALSE, scheme |-> "", host |-> NoHost]
            /\ gDns = DnsUnused /\ gVerdict = "off"
ScoreOff == sResult = EmptyDict /\ sOut = [done |-> TRUE, out |-> [raised |-> FALSE, score |-> 0]]
DerivedOff == bRec = EmptyDict /\ bVal = [done |-> TRUE, val |-> NoValue]
CrawlOff ==
    /\ cSite = CrawlOffSite /\ cMax = 0 /\ cPc = "off" /\ cQueue = <<>>
    /\ cVisited = {} /\ cPages = <<>> /\ cLinks = <<>> /\ cImages = <<>>
    /\ cProbed = {} /\ cBroken = NoCheck /\ cMissing = NoCheck
VerdictOff ==
    /\ lTarget = <<>> /\ lCurrent = <<>> /\ lBody = <<>> /\ lIndicator = "none"
    /\ lOut = Verdict(FALSE, "")
ExploreOff ==
    /\ eButtons = <<>> /\ eForms = 0 /\ eSel = 0 /\ eIdx = 0 /\ eSeen = {}
    /\ eActions = <<>> /\ eClicked = <<>> /\ eSubmits = 0 /\ ePc = "off"
    /\ eReturned = <<>>
SessionOff ==
    /\ nKeyed = FALSE /\ nEncPw = Unbound /\ nPw = Unbound /\ nStage = "off"
    /\ nFn = "" /\ nPc = "off" /\ nPassword = Unbound /\ nBrowser = 0 /\ nContext = 0
    /\ nOpen = {} /\ nOwner = {} /\ nUsedBy = {} /\ nCalls = 0 /\ nExc = FALSE
ManagerOff ==
    /\ mReg = <<>> /\ mSock = <<>> /\ mPc = "off" /\ mTid = "" /\ mAtCall = <<>>
    /\ mTodo = <<>> /\ mDead = <<>> /\ mSent = <<>> /\ mRet = <<>>
RateOff == rNow = 0 /\ rTicks = 0 /\ rLog = <<>> /\ rLimit = 0 /\ rHist = <<>>
FanOff ==
    /\ fPhase = "off" /\ fLinks = 0 /\ fImages = 0 /\ fWaiting = 0 /\ fHead = 0
    /\ fGet = 0 /\ fSem = 0 /\ fFallback = 0
FrontierOff ==
    /\ qStart = HrefFragment /\ qMax = 0 /\ qAnchors = <<>> /\ qQueue = <<>>
    /\ qVisited = {} /\ qPages = <<>> /\ qLinks = <<>> /\ qPc = "off"
InteractOff ==
    /\ uLinks = 0 /\ uButtons = 0 /\ uPc = "off" /\ uIdx = 0 /\ uActions = <<>>
    /\ nav_passed = 0 /\ nav_failed = 0 /\ btn_passed = 0 /\ btn_failed = 0
    /\ uHome = FALSE
ReportOff == tChecks = <<>> /\ tOverall = Unscored /\ tReference = Unscored
AccessOff == aDoc = NoDoc /\ aLog = <<>>
UnitOff  == DerivedOff /\ CrawlOff /\ VerdictOff /\ ExploreOff /\ SessionOff /\
            ManagerOff /\ RateOff /\ FanOff /\ FrontierOff /\ InteractOff /\ ReportOff /\
            AccessOff
WsInit   == conns = <<>> /\ wsPc = [w \in Sockets |-> "new"]
            /\ wsSnap = [w \in Sockets |-> NoSnap]
            /\ inbox = [w \in Sockets |-> <<>>]
            /\ wsEarly = [w \in Sockets |-> FALSE]
RunInit(p) ==
    /\ pc = p /\ idx = 0 /\ entry = "none" /\ url = PublicUrl /\ guardOk = FALSE
    /\ netReqs = 0 /\ creds = FALSE /\ userId = "" /\ result = EmptyDict
    /\ db = EmptyDict /\ gathered = <<>> /\ loginRet = NoLogin /\ excLog = <<>>
    /\ stepLog = <<>> /\ bcastLog = <<>> /\ saves = 0 /\ started = <<>>
    /\ notified = 0

\* one run, started by any entry point, no socket attached
Init == RunInit("idle") /\ WsInit /\ GuardOff /\ ScoreOff /\ UnitOff
Next ==
    \/ run_tests(BOOLEAN)
    \/ _trigger_test
    \/ _run_scheduled_test
    \/ RunAllBegin
    \/ CheckStart
    \/ CheckRaises
    \/ Stage1Step(FALSE)
    \/ Stage1Save
    \/ Gather(AnyRaising)
    \/ Stage2Step
    \/ Stage2Save
    \/ LoginSkip
    \/ LoginRun
    \/ LoginRaises
    \/ LoginStep
    \/ LoginSave
    \/ Score
    \/ FinalSave
    \/ FinalBroadcast
    \/ Notify
    \/ _run_github_test
Spec == Init /\ [][Next]_vars

\* one run started by POST /run without credentials, with a socket attaching
NextStream ==
    \/ run_tests({FALSE})
    \/ RunAllBegin
    \/ CheckStart
    \/ Stage1Step(TRUE)
    \/ Stage1Save
    \/ Gather(SeoOrNone)
    \/ Stage2Step
    \/ Stage2Save
    \/ LoginSkip
    \/ Score
    \/ FinalSave
    \/ FinalBroadcast
    \/ Notify
    \/ \E w \in Sockets : ws_connect(w)
    \/ \E w \in Sockets : ws_read(w)
    \/ \E w \in Sockets : ws_snapshot(w)
SpecStream == Init /\ [][NextStream]_vars

\* _safe_url on its own
InitGuard ==
    /\ gUrl \in GuardUrls /\ gDns = DnsUnused /\ gVerdict = "pending"
    /\ RunInit("off") /\ WsInit /\ ScoreOff /\ UnitOff
NextGuard == GuardCheck
SpecGuard == InitGuard /\ [][NextGuard]_vars

\* calculate_score on its own
InitScore ==
    /\ sResult = EmptyDict /\ sOut = ScorePending
    /\ RunInit("off") /\ WsInit /\ GuardOff /\ UnitOff
NextScore == ScoreAddCheck \/ ScoreCalc
SpecScore == InitScore /\ [][NextScore]_vars

\* _extract_value derives the value of one broken-links record
InitDerived ==
    /\ bRec \in BrokenLinksRecords /\ bVal = DerivedPending
    /\ RunInit("off") /\ WsInit /\ GuardOff /\ ScoreOff /\ CrawlOff /\ VerdictOff /\
       ExploreOff /\ SessionOff /\ ManagerOff /\ RateOff /\ FanOff /\ FrontierOff /\
       InteractOff /\ ReportOff /\ AccessOff
NextDerived == DeriveBroken
SpecDerived == InitDerived /\ [][NextDerived]_vars

\* crawl_website on its own: queue = deque([(start_url, 0)])
InitCrawl ==
    /\ cSite \in Sites /\ cMax \in 1..MaxPages /\ cPc = "loop"
    /\ cQueue = <<[url |-> StartUrl, depth |-> 0]>>
    /\ cVisited = {} /\ cPages = <<>> /\ cLinks = <<>> /\ cImages = <<>>
    /\ cProbed = {} /\ cBroken = NoCheck /\ cMissing = NoCheck
    /\ RunInit("off") /\ WsInit /\ GuardOff /\ ScoreOff /\ DerivedOff /\ VerdictOff /\
       ExploreOff /\ SessionOff /\ ManagerOff /\ RateOff /\ FanOff /\ FrontierOff /\
       InteractOff /\ ReportOff /\ AccessOff
NextCrawl == CrawlPage \/ CheckLinks \/ CheckImages
SpecCrawl == InitCrawl /\ [][NextCrawl]_vars

\* the login verdict on its own
InitVerdict ==
    /\ lTarget \in LoginUrls /\ lCurrent \in LandingUrls /\ lBody \in BodyTexts
    /\ lIndicator \in Indicators /\ lOut = VerdictPending
    /\ RunInit("off") /\ WsInit /\ GuardOff /\ ScoreOff /\ DerivedOff /\ CrawlOff /\
       ExploreOff /\ SessionOff /\ ManagerOff /\ RateOff /\ FanOff /\ FrontierOff /\
       InteractOff /\ ReportOff /\ AccessOff
NextVerdict == JudgeLogin
SpecVerdict == InitVerdict /\ [][NextVerdict]_vars

\* the button scan, the form count and the return of _test_post_login_ui
InitExplore ==
    /\ \E b \in Buttons : eButtons = <<b, SendButton>>
    /\ eForms \in 0..MaxForms
    /\ eActions \in {PriorActions(0), PriorActions(MaxPrior)}
    /\ eSel = 1 /\ eIdx = 1 /\ eSeen = {} /\ eClicked = <<>> /\ eSubmits = 0
    /\ ePc = "buttons" /\ eReturned = <<>>
    /\ RunInit("off") /\ WsInit /\ GuardOff /\ ScoreOff /\ DerivedOff /\ CrawlOff /\
       VerdictOff /\ SessionOff /\ ManagerOff /\ RateOff /\ FanOff /\ FrontierOff /\
       InteractOff /\ ReportOff /\ AccessOff
NextExplore ==
    \/ NextSelector
    \/ SkipButton
    \/ ClickButton
    \/ ButtonsDone
    \/ CountForms
    \/ ReturnCheck
SpecExplore == InitExplore /\ [][NextExplore]_vars

\* run_tests has stored enc_pw = encrypt_credential(req.password); no browser yet
InitSession ==
    /\ nKeyed \in BOOLEAN
    /\ nEncPw = encrypt_credential(Plaintext, nKeyed)
    /\ nPw = Unbound /\ nStage = "idle" /\ nFn = "" /\ nPc = "idle"
    /\ nPassword = Unbound /\ nBrowser = 0 /\ nContext = 0
    /\ nOpen = {} /\ nOwner = {} /\ nUsedBy = {} /\ nCalls = 0 /\ nExc = FALSE
    /\ RunInit("off") /\ WsInit /\ GuardOff /\ ScoreOff /\ DerivedOff /\ CrawlOff /\
       VerdictOff /\ ExploreOff /\ ManagerOff /\ RateOff /\ FanOff /\ FrontierOff /\
       InteractOff /\ ReportOff /\ AccessOff
NextSession ==
    \/ LoginStageBegin
    \/ run_login_test
    \/ capture_js_errors
    \/ StartPlaywright
    \/ Launch
    \/ NewContext
    \/ NewPage
    \/ Work
    \/ FinallyBegin
    \/ CloseContext
    \/ CloseBrowser
    \/ LoginStageEnd
SpecSession == InitSession /\ [][NextSession]_vars

\* manager = ConnectionManager(): nothing registered
InitManager ==
    /\ mReg = [tid \in Tids |-> <<>>]
    /\ mSock = [ws \in ManagerSockets |-> "new"]
    /\ mPc = "idle" /\ mTid = "" /\ mAtCall = <<>> /\ mTodo = <<>>
    /\ mDead = <<>> /\ mSent = <<>>
    /\ mRet = [reg |-> [tid \in Tids |-> <<>>], sock |-> [ws \in ManagerSockets |-> "new"]]
    /\ RunInit("off") /\ WsInit /\ GuardOff /\ ScoreOff /\ DerivedOff /\ CrawlOff /\
       VerdictOff /\ ExploreOff /\ SessionOff /\ RateOff /\ FanOff /\ FrontierOff /\
       InteractOff /\ ReportOff /\ AccessOff
NextManager ==
    \/ manager_connect
    \/ manager_disconnect
    \/ BroadcastBegin
    \/ BroadcastSend
    \/ BroadcastPrune
SpecManager == InitManager /\ [][NextManager]_vars

\* _log = defaultdict(deque): no request yet
InitRate ==
    /\ rNow = 0 /\ rTicks = 0 /\ rLog = [k \in IpKeys |-> <<>>] /\ rLimit \in 1..MaxLimit
    /\ rHist = <<>>
    /\ RunInit("off") /\ WsInit /\ GuardOff /\ ScoreOff /\ DerivedOff /\ CrawlOff /\
       VerdictOff /\ ExploreOff /\ SessionOff /\ ManagerOff /\ FanOff /\ FrontierOff /\
       InteractOff /\ ReportOff /\ AccessOff
NextRate ==
    \/ Tick
    \/ dispatch
SpecRate == InitRate /\ [][NextRate]_vars

\* the crawl loop has ended; the link probes are created and gathered
InitFanout ==
    /\ fLinks \in {0, 3, MaxProbes} /\ fImages \in {0, MaxProbes - 1}
    /\ fPhase = "links" /\ fWaiting = fLinks /\ fHead = 0 /\ fGet = 0 /\ fSem = SemLimit
    /\ fFallback = 0
    /\ RunInit("off") /\ WsInit /\ GuardOff /\ ScoreOff /\ DerivedOff /\ CrawlOff /\
       VerdictOff /\ ExploreOff /\ SessionOff /\ ManagerOff /\ RateOff /\ FrontierOff /\
       InteractOff /\ ReportOff /\ AccessOff
NextFanout ==
    \/ ProbeAcquire
    \/ HeadReturns
    \/ HeadRaises
    \/ GetReturns
    \/ LinksGathered
    \/ ImagesGathered
SpecFanout == InitFanout /\ [][NextFanout]_vars

\* visited = set(); queue = deque([(start_url, 0)]); crawled_pages = []
InitFrontier ==
    /\ qStart \in StartUrls /\ qMax \in {1, MaxFetch}
    /\ \E S \in SUBSET Range(Hrefs) :
          Cardinality(S) <= MaxAnchors /\ qAnchors = Among(Hrefs, S)
    /\ qQueue = <<[url |-> qStart, depth |-> 0]>>
    /\ qVisited = {} /\ qPages = <<>> /\ qLinks = <<>> /\ qPc = "loop"
    /\ RunInit("off") /\ WsInit /\ GuardOff /\ ScoreOff /\ DerivedOff /\ CrawlOff /\
       VerdictOff /\ ExploreOff /\ SessionOff /\ ManagerOff /\ RateOff /\ FanOff /\
       InteractOff /\ ReportOff /\ AccessOff
NextFrontier ==
    \/ FetchPage
    \/ FrontierDone
SpecFrontier == InitFrontier /\ [][NextFrontier]_vars

\* actions = []; nav_passed = nav_failed = 0; the page is the landing page
InitInteract ==
    /\ uLinks \in 0..MaxElements /\ uButtons \in 0..MaxElements
    /\ uPc = "links" /\ uIdx = 1 /\ uActions = <<>>
    /\ nav_passed = 0 /\ nav_failed = 0 /\ btn_passed = 0 /\ btn_failed = 0
    /\ uHome = TRUE
    /\ RunInit("off") /\ WsInit /\ GuardOff /\ ScoreOff /\ DerivedOff /\ CrawlOff /\
       VerdictOff /\ ExploreOff /\ SessionOff /\ ManagerOff /\ RateOff /\ FanOff /\
       FrontierOff /\ ReportOff /\ AccessOff
NextInteract ==
    \/ VisitLinkPasses
    \/ VisitLinkFails
    \/ LinksDone
    \/ ScanBegin
    \/ ButtonGone
    \/ ClickPasses
    \/ ClickFails
    \/ ScanDone
SpecInteract == InitInteract /\ [][NextInteract]_vars

\* one result, not scored yet
InitReport ==
    /\ \E up \in ReportSamples("uptime"), sp \in ReportSamples("speed"),
          sl \in ReportSamples("ssl"), bl \in ReportSamples("broken_links"),
          mo \in ReportSamples("mobile_responsiveness"),
          im \in ReportSamples("missing_images"), js \in ReportSamples("js_errors") :
          tChecks = [uptime |-> up, speed |-> sp, ssl |-> sl, broken_links |-> bl,
                     mobile_responsiveness |-> mo, missing_images |-> im, js_errors |-> js]
    /\ tOverall = Unscored /\ tReference = Unscored
    /\ RunInit("off") /\ WsInit /\ GuardOff /\ ScoreOff /\ DerivedOff /\ CrawlOff /\
       VerdictOff /\ ExploreOff /\ SessionOff /\ ManagerOff /\ RateOff /\ FanOff /\
       FrontierOff /\ InteractOff /\ AccessOff
NextReport ==
    \/ OverallScore
    \/ ReferenceScore
SpecReport == InitReport /\ [][NextReport]_vars

\* a run is stored, with or without an owner, running or finished; no call yet
InitAccess ==
    /\ aDoc \in {Doc(o, s) : o \in Owners, s \in {"running", "completed"}}
    /\ aLog = <<>>
    /\ RunInit("off") /\ WsInit /\ GuardOff /\ ScoreOff /\ DerivedOff /\ CrawlOff /\
       VerdictOff /\ ExploreOff /\ SessionOff /\ ManagerOff /\ RateOff /\ FanOff /\
       FrontierOff /\ InteractOff /\ ReportOff
NextAccess ==
    \/ fetch_result
    \/ remove_result
    \/ ws_endpoint
SpecAccess == InitAccess /\ [][NextAccess]_vars

(***************************************************************************)
(* Properties.                                                             *)
(***************************************************************************)
\* the eight blocked networks as address ranges, written out from their CIDR text
InBlockedRange(a) ==
    IF a.ver = 4
    THEN \/ a.w[1] = 10
         \/ a.w[1] = 172 /\ a.w[2] \in 16..31
         \/ a.w[1] = 192 /\ a.w[2] = 168
         \/ a.w[1] = 127
         \/ a.w[1] = 169 /\ a.w[2] = 254
         \/ a.w[1] = 0
    ELSE \/ a.w = <<0, 0, 0, 0, 0, 0, 0, 1>>
         \/ a.w[1] \in 64512..65023

\* the four reasons for rejection the guard's contract lists
ListedReason(u, dns) ==
    \/ u.scheme \notin {"http", "https"}
    \/ u.host.kind = "none"
    \/ u.host.kind = "ip" /\ InBlockedRange(u.host.addr)
    \/ u.host.kind = "name" /\ \E a \in dns.addrs : InBlockedRange(a)

\* C1 as stated: _safe_url rejects exactly for a scheme other than http/https,
\* an empty host, a literal address in a blocked network, or a name with a
\* resolved address in a blocked network; every other URL is accepted.
C1_RejectsExactlyListed ==
    gVerdict \in {"accepted", "rejected"} =>
        (gVerdict = "rejected" <=> ListedReason(gUrl, gDns))

\* C1 amended: _safe_url rejects exactly for one of the four listed reasons or
\* when parsing the URL or resolving the host name raises; every other URL is
\* accepted.
C1_RejectsListedOrUnresolved ==
    gVerdict \in {"accepted", "rejected"} =>
        (gVerdict = "rejected" <=>
            \/ ListedReason(gUrl, gDns)
            \/ ~gUrl.parses
            \/ ReachesDns(gUrl) /\ gDns.raises)

\* C1 witness: an http(s) URL with a host name whose resolution raised is rejected
C1_Witness ==
    gVerdict = "rejected" /\ ReachesDns(gUrl) /\ gDns.raises

\* C2: on every path that starts _run_all for a URL, the guard has checked and
\* accepted the URL before the first network request to it is issued.
C2_GuardBeforeRequest ==
    netReqs > 0 => guardOk

\* the stored document of the run has a terminal status
TerminalRecord ==
    /\ IsDict(get_result(db))
    /\ Get(get_result(db), "status") \in {PyStr("completed"), PyStr("failed")}

\* C3: every run of _run_all ends with a persisted record whose status is
\* completed or failed, whatever raised along the way.
C3_EndsWithTerminalRecord ==
    pc \in {"done", "crashed"} => TerminalRecord

\* the record the contract gives a raising probe: the text under "message"
ErrorRecordMessage ==
    [status |-> PyStr("error"), score |-> PyInt(0), message |-> PyStr(ProbeException.v)]

\* the record with the text under "error"
ErrorRecordError ==
    [status |-> PyStr("error"), score |-> PyInt(0), error |-> PyStr(ProbeException.v)]

\* every Stage-2 result in d is the probe's own return value, or errRec where
\* the probe raised
Stage2Recorded(d, errRec) ==
    \A j \in 1..Len(Stage2Keys) :
        Stage2Keys[j] \in DOMAIN d =>
            d[Stage2Keys[j]] = IF gathered[j] = ProbeException THEN errRec
                               ELSE ProbeReturn(Stage2Keys[j])

\* all nine Stage-2 results are in d
Stage2Complete(d) ==
    \A j \in 1..Len(Stage2Keys) : Stage2Keys[j] \in DOMAIN d

Without(d, k) == [x \in DOMAIN d \ {k} |-> d[x]]

\* C5: when only the seo probe raises, the overall score equals the score of
\* the same run with no seo entry at all (SEO's weight leaves the denominator).
C5_SeoWeightExcluded ==
    (/\ pc = "done" /\ excLog = <<>>
     /\ \A j \in 1..Len(Stage2Keys) :
           (gathered[j] = ProbeException) <=> (Stage2Keys[j] = "seo"))
    => Get(result, "overall_score")
          = PyInt(calculate_score(Without(result, "seo")).score)

\* the weight the table gives a check name
ClaimWeight(name) ==
    WEIGHTS[CHOOSE j \in 1..Len(WEIGHTS) : WEIGHTS[j].name = name].weight

\* the check stored under `name` produced a value: it is a non-empty dict whose
\* scored field (valid for ssl, score otherwise) is a number; the broken-links
\* ratio is derived from any non-empty dict
ClaimHasValue(res, name) ==
    /\ name \in DOMAIN res
    /\ IsDict(res[name]) /\ DOMAIN res[name] # {}
    /\ CASE name = "ssl" -> Get(res[name], "valid").t # "none"
         [] name = "broken_links" -> TRUE
         [] OTHER -> Get(res[name], "score").t \in {"int", "bool"}

\* x limited to 0..100
Limit(x) == IF x < 0 THEN 0 ELSE IF x > 100 THEN 100 ELSE x

\* the number of links checked, 1 when none was
LinksTotal(e) ==
    IF Get(e, "total_checked").t = "int" /\ Get(e, "total_checked").v # 0
    THEN Get(e, "total_checked").v ELSE 1

\* the common denominator of the values of res
ClaimUnit(res) ==
    IF ClaimHasValue(res, "broken_links") THEN LinksTotal(res["broken_links"]) ELSE 1

\* the 0-100 value of the check stored under `name`, in units of 1/unit
ClaimValue(res, name, unit) ==
    CASE name = "ssl" -> unit * (IF Truthy(res[name].valid) THEN 100 ELSE 0)
      [] name = "broken_links" ->
            IF 100 * unit < 200 * GetOr(res[name], "broken", PyList(0)).n THEN 0
            ELSE 100 * unit - 200 * GetOr(res[name], "broken", PyList(0)).n
      [] OTHER ->
            unit * Limit(IF res[name].score.t = "bool"
                         THEN (IF res[name].score.v THEN 1 ELSE 0)
                         ELSE res[name].score.v)

\* the sum over the names in S of weight * value, and of weight
RECURSIVE ClaimNumer(_, _, _)
ClaimNumer(res, S, unit) ==
    IF S = {} THEN 0
    ELSE ClaimWeight(CHOOSE n \in S : TRUE) * ClaimValue(res, CHOOSE n \in S : TRUE, unit)
         + ClaimNumer(res, S \ {CHOOSE n \in S : TRUE}, unit)
RECURSIVE ClaimDenom(_)
ClaimDenom(S) ==
    IF S = {} THEN 0
    ELSE ClaimWeight(CHOOSE n \in S : TRUE) + ClaimDenom(S \ {CHOOSE n \in S : TRUE})

\* the names of res that produced a value
Valued(res) == {n \in WeightedNames : ClaimHasValue(res, n)}

\* s is n / d rounded to a nearest integer
RoundsTo(s, n, d) == 2 * (s * d - n) <= d /\ 2 * (n - s * d) <= d

IsStepMsg(m) == "step" \in DOMAIN m

\* C8: no subscriber receives a step's broadcast before the step's result is in
\* the durable record: whenever a step event is in a subscriber's inbox, the
\* stored record holds that step's result.
C8_PersistedBeforeBroadcast ==
    \A w \in Sockets : \A i \in 1..Len(inbox[w]) :
        IsStepMsg(inbox[w][i]) =>
            /\ IsDict(get_result(db))
            /\ Get(get_result(db), inbox[w][i].step.v) = inbox[w][i].data

\* C9: the Stage-1 checks start in the order speed, ssl, broken_links, images,
\* mobile, js_errors, and when check k+1 has started the result of check k is
\* in the stored record and has been broadcast.
C9_Stage1InOrder ==
    /\ Len(started) <= Len(Stage1Keys)
    /\ started = SubSeq(Stage1Keys, 1, Len(started))
    /\ \A k \in 1..(Len(started) - 1) :
          /\ IsDict(get_result(db))
          /\ Stage1Keys[k] \in DOMAIN get_result(db)
          /\ \E i \in 1..Len(bcastLog) :
                bcastLog[i] = StepMsg(Stage1Keys[k], get_result(db)[Stage1Keys[k]])

\* C9 witness: the last Stage-1 check has started after five persisted steps
C9_Witness ==
    /\ Len(started) = Len(Stage1Keys) /\ pc = "s1_step"
    /\ Get(get_result(db), "mobile") # PyNone

\* the step and done events of an inbox, the snapshot left out
EventsOf(q) == SelectSeq(q, LAMBDA m : "snapshot" \notin DOMAIN m)

\* the step an event is about, "done" for the terminal event
EventKey(m) == IF IsStepMsg(m) THEN m.step.v ELSE "done"

\* C10: a subscriber connected for the whole run whose sends succeed receives
\* one step event per completed step, in the order the steps completed, then
\* exactly one event with done=true, and nothing after it.
C10_OneEventPerStepThenDone ==
    \A w \in Sockets :
        (pc \in {"done", "crashed"} /\ wsPc[w] # "new" /\ wsEarly[w]) =>
            [j \in 1..Len(EventsOf(inbox[w])) |-> EventKey(EventsOf(inbox[w])[j])]
                = stepLog \o <<"done">>

\* the messages of an inbox that carry done=true
DoneMessages(q) == SelectSeq(q, LAMBDA m : m.done = PyBool(TRUE))

\* C11: a subscriber receives the final state exactly once whatever the moment
\* of subscription: one that connects after completion gets one snapshot with
\* done=true and is closed, and no subscriber receives two messages with
\* done=true.
C11_FinalStateOnce ==
    \A w \in Sockets :
        /\ Len(DoneMessages(inbox[w])) <= 1
        /\ wsPc[w] = "closed" =>
              /\ inbox[w][Len(inbox[w])] = SnapshotMsg(wsSnap[w])
              /\ IsDone(wsSnap[w])

\* every check result whose _step returned is in the document d
KeepsRecorded(d) ==
    \A j \in 1..Len(stepLog) : stepLog[j] \in DOMAIN d

\* C12: when an exception escapes a stage of _run_all, the persisted terminal
\* record has status failed, carries the exception message in error, keeps
\* every check result recorded before the exception, and carries an overall
\* score and a summary computed from that partial data.
C12_FailedRecordScored ==
    (pc = "done" /\ excLog # <<>>) =>
        /\ Get(get_result(db), "status") = PyStr("failed")
        /\ Get(get_result(db), "error") = PyStr(excLog[1])
        /\ KeepsRecorded(get_result(db))
        /\ Get(get_result(db), "overall_score")
              = PyInt(calculate_score(get_result(db)).score)
        /\ Get(get_result(db), "summary") # PyNone

\* the status of d is completed or failed
IsTerminal(d) == Get(d, "status") \in {PyStr("completed"), PyStr("failed")}

\* a and b carry the same overall score and summary
SameScore(a, b) ==
    /\ Get(a, "overall_score") = Get(b, "overall_score")
    /\ Get(a, "summary") = Get(b, "summary")

AtLeastZero(x) == IF x < 0 THEN 0 ELSE x

\* the value num/den is the number n/d
IsRatio(v, n, d) == v.t = "val" /\ v.num * d = n * v.den

\* C14: for a broken-links record with total_checked > 0, the value derived is
\* max(0, 100 - (broken_count / total_checked) * 200); for 3 broken links out
\* of 20 checked it is 70.
C14_DerivedBrokenValue ==
    (bVal.done /\ Get(bRec, "total_checked") # PyNone /\ bRec.total_checked.v > 0) =>
        /\ IsRatio(bVal.val,
                   AtLeastZero(100 * bRec.total_checked.v - 200 * bRec.broken.n),
                   bRec.total_checked.v)
        /\ (bRec.total_checked.v = 20 /\ bRec.broken.n = 3) => IsRatio(bVal.val, 70, 1)

\* C14 witness: the value of 3 broken links out of 20, and of a record with
\* more than half of its links broken, have been derived
C14_Witness ==
    /\ bVal.done /\ Get(bRec, "total_checked") # PyNone
    /\ \/ bRec.total_checked.v = 20 /\ bRec.broken.n = 3
       \/ bRec.total_checked.v > 0 /\ 2 * bRec.broken.n > bRec.total_checked.v

\* C15: when POST /run is given a URL the guard rejects, the rejection is all
\* that happens: no run record is created, no background run is started and
\* no network request to the URL is made.
C15_RejectedRunChangesNothing ==
    (entry = "post_run" /\ ~guardOk) =>
        /\ pc = "rejected"
        /\ db = EmptyDict /\ saves = 0 /\ result = EmptyDict
        /\ netReqs = 0 /\ started = <<>>
        /\ bcastLog = <<>> /\ notified = 0

\* C15 witness: POST /run has rejected the link-local URL
C15_Witness ==
    pc = "rejected" /\ entry = "post_run" /\ url = PrivateUrl

\* C16: the notifiers are triggered exactly once for a run: never more than
\* once, only when the terminal record is in the store, and once the run has
\* reached its terminal state they have been triggered.
C16_NotifiedOnceAfterPersist ==
    /\ notified <= 1
    /\ notified >= 1 => TerminalRecord
    /\ pc = "done" => notified = 1

\* the links a page holds: its hrefs other than mailto:, tel:, javascript: and
\* fragment hrefs and other than the OAuth/SSO URLs
DiscoveredOn(u) ==
    {a \in Range(Anchors(cSite, u)) : ~SkippedHref(a) /\ ~_is_oauth_url(a)}

\* the crawled pages that came with HTML
ParsedPages ==
    {cPages[j].url : j \in {k \in 1..Len(cPages) :
                              /\ cPages[k].status_code >= 0
                              /\ _fetch_html(cSite, cPages[k].url).html}}

\* C17: for any max_pages >= 1, crawl_website returns at most max_pages page
\* entries, and once the links have been probed every link found on a
\* crawled page has been probed, crawled or not; with max_pages = 1 and a
\* start page that answers 200 with HTML there is exactly one page entry and
\* every link of the start page (all MaxStartLinks numbered pages when it
\* holds that many) has been probed and counted.
C17_CapBoundsCrawlNotProbes ==
    /\ Len(cPages) <= cMax
    /\ cPc \in {"images", "done"} =>
          \A u \in ParsedPages : DiscoveredOn(u) \subseteq cProbed
    /\ (cPc = "done" /\ cMax = 1 /\ cSite.status = 200 /\ cSite.html) =>
          /\ Len(cPages) = 1
          /\ \A n \in 1..cSite.nLinks : PageUrl(n) \in cProbed
          /\ cBroken.total_links = Cardinality(DiscoveredOn(StartUrl))
          /\ cBroken.total_links >= cSite.nLinks

\* C17 witness: max_pages = 1, the start page answers 200 and links to
\* MaxStartLinks pages: one page entry, MaxStartLinks links or more probed
C17_Witness ==
    /\ cPc = "done" /\ cMax = 1 /\ cSite.status = 200 /\ cSite.html
    /\ cSite.nLinks = MaxStartLinks
    /\ Len(cPages) = 1
    /\ cBroken.total_links >= MaxStartLinks

\* the URLs waiting on the crawl queue
QueuedUrls == {cQueue[j].url : j \in 1..Len(cQueue)}

\* C18: a URL the OAuth/SSO allow-list matches, found as an href or as an
\* image source of a page, is never on the crawl queue, never handed to the
\* prober, and never among the broken links or the missing images,
\* whatever it would answer.
C18_OauthUrlsLeftAlone ==
    \A u \in Range(ExtraHrefs) \cup Range(ImageSrcs) :
        _is_oauth_url(u) =>
            /\ u \notin QueuedUrls
            /\ u \notin cProbed
            /\ cPc \in {"images", "done"} => u \notin cBroken.broken_links
            /\ cPc = "done" => u \notin cMissing.missing_images

\* the record of a check whose request to the start URL failed
StartUnreachable(rec) == Get(rec, "message") = PyStr("connection error")

\* C19: when the start URL is unreachable, the broken-link and the image
\* results recorded for the run carry the skipped status, not a pass and not
\* an ordinary status with zero links or images checked.
C19_UnreachableStartSkipped ==
    \A key \in {"broken_links", "images"} :
        (key \in DOMAIN result /\ StartUnreachable(result[key])) =>
            Get(result[key], "status") \in {PyStr("skip"), PyStr("skipped")}

\* the part of a URL after its first "?"
QueryOf(s) == SubSeq(s, Len(BeforeQuery(s)) + 1, Len(s))

\* the post-submit URL differs from the login URL in its path or its query,
\* a trailing slash aside
UrlChanged ==
    \/ RStripSlash(BeforeQuery(lCurrent)) # RStripSlash(BeforeQuery(lTarget))
    \/ QueryOf(lCurrent) # QueryOf(lTarget)

BaseOf(s) == RStripSlash(BeforeQuery(s))

C21_IndicatorVerdict ==
    (lOut.done /\ lIndicator # "none") =>
        /\ lIndicator = "found" => lOut.success
        /\ (lIndicator = "missing" /\ lCurrent # lTarget) => lOut.success
        /\ ~lOut.success => (lIndicator = "missing" /\ lCurrent = lTarget)
        /\ (lIndicator = "missing" /\ lCurrent = lTarget) => ~lOut.success

\* C21 witness: the indicator was not found, the URL changed and the page
\* shows an error phrase: success all the same
C21_Witness ==
    /\ lOut.done /\ lIndicator = "missing" /\ lCurrent # lTarget
    /\ has_error(Lower(lBody)) /\ lOut.success


\* the label of a button as the page shows it, before any cut
ShownLabel(b) == IF b.text # <<>> THEN b.text ELSE b.aria
\* the visible, enabled buttons of the page whose label holds a destructive keyword
DestructiveButtons ==
    { j \in 1..Len(eButtons) :
        /\ eButtons[j].visible /\ eButtons[j].enabled
        /\ Destructive(Lower(ShownLabel(eButtons[j]))) }
ReturnedAsSkip(b) ==
    \E k \in 1..Len(eReturned) :
        eReturned[k].status = "skip" /\ eReturned[k].label = LabelOf(b)

\* C22: a visible, enabled button whose label contains a destructive keyword is
\* never clicked, and once the exploration has returned it is in the returned
\* action list with status skip.
C22_DestructiveNeverClicked ==
    \A j \in DestructiveButtons :
        /\ j \notin Range(eClicked)
        /\ ePc = "done" => ReturnedAsSkip(eButtons[j])

\* C23: no action of the exploration submits a form.
C23_NoFormSubmitted == eSubmits = 0


C25_NoPlaintextAfterLogin ==
    nStage = "ended" => Plaintext \notin {nEncPw, nPw, nPassword}


Times(seq, x) == Cardinality({ j \in 1..Len(seq) : seq[j] = x })

PassedOn(key) ==
    { j \in 1..Len(rHist) :
        rHist[j].key = key /\ rHist[j].limited /\ rHist[j].out = "passed" }
PassedWithin(key, from, to) ==
    Cardinality({ j \in PassedOn(key) : from <= rHist[j].t /\ rHist[j].t <= to })

\* C27: for each ip, no window of 60 seconds holds more than
\* rate_limit_per_minute of the rate-limited POST requests passed on, and a
\* request that finds the window full is answered 429; only rate-limited POST
\* requests are answered 429.
C27_WindowNeverOverfull ==
    /\ \A key \in IpKeys : \A j \in PassedOn(key) :
          PassedWithin(key, rHist[j].t, rHist[j].t + WINDOW) <= rLimit
    /\ \A j \in 1..Len(rHist) :
          /\ rHist[j].out = "429" => rHist[j].limited
          /\ (rHist[j].limited /\ rHist[j].out = "429") =>
                Cardinality({ k \in PassedOn(rHist[j].key) :
                                k < j /\ rHist[j].t - WINDOW <= rHist[k].t }) >= rLimit
\* a request exactly 60 seconds after a passed one is answered 429, a later one passes
C27_Witness ==
    \E j \in 1..Len(rHist) : \E k \in 1..Len(rHist) :
        /\ j < k /\ rHist[j].key = rHist[k].key
        /\ rHist[j].out = "429" /\ rHist[k].limited /\ rHist[k].out = "passed"
        /\ \E i \in PassedOn(rHist[j].key) : i < j /\ rHist[j].t - rHist[i].t = WINDOW


\* an exception raised inside one of the three stages
StageExceptions == {"check", "step_save", "login"}

\* C28: once a step of the run has completed, an exception raised inside
\* Stage 1, Stage 2 or Stage 3 does not make the final status failed: the run
\* ends completed.
C28_StageExceptionNotFatal ==
    (pc = "done" /\ stepLog # <<>> /\ excLog # <<>> /\ excLog[1] \in StageExceptions) =>
        Get(get_result(db), "status") = PyStr("completed")

\* a broken-links record of a check that could not run: nothing was checked
CouldNotRun(rec) ==
    /\ Get(rec, "status") \in {PyStr("error"), PyStr("skip")}
    /\ Get(rec, "total_checked") \in {PyNone, PyInt(0)}

\* C29: a broken-links record of a check that could not run gives the score no
\* value: the overall score of a completed run is the score of the same
\* results with that record left out.
C29_UnrunBrokenLinksNotScored ==
    (/\ pc = "done" /\ excLog = <<>>
     /\ "broken_links" \in DOMAIN result /\ CouldNotRun(result["broken_links"])) =>
        /\ _extract_value(result["broken_links"], CfgOf("broken_links")) = NoValue
        /\ Get(result, "overall_score")
              = PyInt(calculate_score(Without(result, "broken_links")).score)


\* C30 as stated: no check-result key is written by two steps of a run.
C30_NoKeyWrittenTwice ==
    \A i \in 1..Len(stepLog) : \A j \in 1..Len(stepLog) :
        i # j => stepLog[i] # stepLog[j]

\* C30 amended: the only key two steps of a run write is js_errors, once by
\* Stage 1 and once more by the login stage; every other key is written once.
C30_OnlyJsErrorsRewritten ==
    \A i \in 1..Len(stepLog) : \A j \in 1..Len(stepLog) :
        (i < j /\ stepLog[i] = stepLog[j]) =>
            /\ stepLog[i] = "js_errors"
            /\ i <= Len(Stage1Keys)
            /\ j > Len(Stage1Keys) + Len(Stage2Keys)
            /\ Times(stepLog, "js_errors") = 2
\* a finished run whose login stage wrote login, post_login and js_errors
C30_Witness ==
    /\ pc = "done" /\ excLog = <<>>
    /\ Times(stepLog, "js_errors") = 2
    /\ Times(stepLog, "post_login") = 1 /\ Times(stepLog, "login") = 1


\* what _check_js_errors returns in Stage 1
JsPlaceholder == CHOOSE o \in Stage1Outcomes("js_errors") : TRUE
\* the login stage returned with a JS check
LoginGaveJsCheck == creds /\ loginRet # NoLogin /\ loginRet.js_check

\* C31: in the final record of a run whose login stage returned JS-error
\* findings, js_errors is the login stage's finding; in a run without
\* credentials the login stage is never invoked and the placeholder stays.
C31_LoginJsErrorsReplacePlaceholder ==
    /\ ~creds => loginRet = NoLogin
    /\ pc = "done" =>
          /\ LoginGaveJsCheck =>
                Get(get_result(db), "js_errors") = LoginValue(loginRet, "js_errors")
          /\ (~creds /\ "js_errors" \in DOMAIN get_result(db)) =>
                Get(get_result(db), "js_errors") = JsPlaceholder


\* the store answers for the run id with a record that is running or terminal
StoredRunningOrTerminal ==
    /\ IsDict(get_result(db))
    /\ Get(get_result(db), "status")
          \in {PyStr("running"), PyStr("completed"), PyStr("failed")}

\* C32: once POST /run has returned the run id, the store holds a record of
\* the run with status running, completed or failed, and a subscriber that
\* has read the store has been given a snapshot.
C32_StartedRunIsStored ==
    /\ (entry = "post_run" /\ pc \notin {"idle", "rejected"}) => StoredRunningOrTerminal
    /\ \A w \in Sockets :
          wsPc[w] \in {"read", "listening", "closed"} => IsDict(wsSnap[w])


\* C33: at every moment of the integrity-checking phase at most 10 link or image probes
\* hold the semaphore and are in flight, whatever the number of links and images; the
\* semaphore's value is what the probes in flight leave of the 10
C33_AtMostTenProbesInFlight ==
    fPhase # "off" =>
        /\ InFlight <= SemLimit
        /\ fSem = SemLimit - InFlight
\* the ceiling is reached in the image phase while further image probes wait
C33_Witness ==
    /\ fPhase = "images" /\ fImages > SemLimit
    /\ InFlight = SemLimit /\ fGet > 0 /\ fWaiting > 0

\* C34: the page inventory never holds two entries whose URLs are equal after fragment
\* stripping, the start URL included; every fetch appends one entry, so no such URL is
\* fetched twice
C34_NoPageTwice ==
    \A i, j \in 1..Len(qPages) :
        StripFragment(qPages[i].url) = StripFragment(qPages[j].url) => i = j

\* the netloc of a URL: host and port
SameNetloc(u, v) == u.netloc = v.netloc
SameOrigin(u, v) == u.scheme = v.scheme /\ SameNetloc(u, v)

UrlDecides ==
    /\ lOut.done
    /\ \/ lIndicator = "missing"
       \/ /\ lIndicator = "none" /\ ~has_error(Lower(lBody))
          /\ ~has_dashboard(lCurrent, Lower(lBody))

RecordsOf(type, element) ==
    SelectSeq(uActions, LAMBDA a : a.action_type = type /\ a.element = element)
\* the links visited and the buttons clicked so far
LinksVisited == IF uPc = "links" THEN uIdx - 1 ELSE uLinks
ButtonsClicked ==
    Cardinality({b \in 1..uButtons : RecordsOf("button", b) # <<>>})

\* C37: every navigation link visited and every button handled has exactly one action
\* record, and the pass and fail tallies count each of them once, also when the return
\* to the scanned page fails
C37_OneRecordPerInteraction ==
    /\ \A l \in 1..LinksVisited : Len(RecordsOf("nav_link", l)) = 1
    /\ \A b \in 1..uButtons : Len(RecordsOf("button", b)) <= 1
    /\ nav_passed + nav_failed = LinksVisited
    /\ btn_passed + btn_failed = ButtonsClicked

\* C38: for every combination of check statuses and counts calculate_overall_score
\* returns the score the reference rules of the test suite give
C38_OverallScoreIsReferenceScore ==
    (tOverall.done /\ tReference.done) => tOverall.score = tReference.score

\* the share_token of the stored run
TokenOf(store) == Get(get_result(store), "share_token")

\* C39: once a save has given the stored run its share_token, no later save of the run
\* (step save or final save) changes it
C39_ShareTokenKept ==
    [][(IsDict(get_result(db)) /\ IsDict(get_result(db'))) => TokenOf(db') = TokenOf(db)]_vars

\* C40: a run record that has an owner is delivered (by fetch or by a WebSocket
\* snapshot) and deleted only for a caller who is that owner
C40_OwnedRunServedToOwnerOnly ==
    \A j \in 1..Len(aLog) :
        (aLog[j].doc # NoDoc /\ aLog[j].doc.user_id # "") =>
            aLog[j].caller = aLog[j].doc.user_id
====
